---- MODULE Spec2Model ----
(***************************************************************************)
(* Signal outcome and partial-exit P&L engine of the omnivara dashboard:   *)
(*   - StrategyOptimizer (src/optimize_exit_strategy.py): the per-signal   *)
(*     evaluator calculate_signal_profit, calculate_portfolio_profit,      *)
(*     generate_strategies and optimize;                                   *)
(*   - get_signal_history_fallback (src/dashboard_backend.py): the         *)
(*     dashboard's evaluator of one signal row and its summary, and        *)
(*     get_signal_history, which proxies the bot API and falls back;       *)
(*   - DashboardDatabase.update_trader_stats (src/dashboard_backend.py).   *)
(*                                                                         *)
(* Numbers.  Python floats are modelled as exact rationals <<n, d>> in     *)
(* lowest terms with d > 0; the operations are applied in the order the    *)
(* code applies them.  Prices are whole numbers of price units.  A         *)
(* strategy fraction is kept as its integer percentage p (the code's       *)
(* tp1..tp6 loop integers), its value being p/100.                         *)
(* An optional value (SQL NULL / Python None) is <<>>, a present value v   *)
(* is <<v>>.  A symbol is the sequence of its characters, so that the      *)
(* code's substring tests are computed and not assumed.                    *)
(***************************************************************************)
EXTENDS Integers, Sequences, FiniteSets, TLC

VARIABLES
    pc,           \* position of the running operation
    row,          \* the signal_details row joined with its announced TPs
    strategy,     \* the strategy handed to calculate_signal_profit
    opt_out,      \* outcome of calculate_signal_profit (return value or exception)
    dash_out,     \* the signal dict built by get_signal_history_fallback
    step,         \* generate_strategies / optimize argument
    include_tp6,  \* generate_strategies / optimize argument
    strategies,   \* the list generate_strategies returns
    db,           \* signal_details rows of telegram_messages.db
    signals,      \* StrategyOptimizer.signals
    baseline,     \* (baseline_pl, baseline_stats) of optimize
    results,      \* optimize's results list
    scored,       \* number of strategies scored so far by optimize's loop
    report,       \* what optimize has printed: top-N, best win rate, recommended
    ret,          \* how optimize ended: its return value or its exception
    port_out,     \* outcome of a direct call of calculate_portfolio_profit
    strategy2,    \* the strategy of a second call of calculate_signal_profit
    opt_out2,     \* outcome of the second call on the same signal
    hist_req,     \* the request to /api/signal-history and what the bot API does with it
    hist_resp,    \* the response of get_signal_history
    trader_stats, \* the rows of the trader_stats table, in insertion order
    stats_req     \* the arguments of the last update_trader_stats call

vars == <<pc, row, strategy, opt_out, dash_out, step, include_tp6, strategies,
          db, signals, baseline, results, scored, report, ret, port_out,
          strategy2, opt_out2, hist_req, hist_resp, trader_stats, stats_req>>

evalVars == <<row, strategy, opt_out, dash_out, strategy2, opt_out2>>
genVars  == <<step, include_tp6, strategies>>
optVars  == <<db, signals, baseline, results, scored, report, ret, port_out>>
dashVars == <<hist_req, hist_resp, trader_stats, stats_req>>

-----------------------------------------------------------------------------
(* Optional values *)

Null == <<>>
Some(v) == <<v>>
Val(x) == x[1]
\* Python truthiness of an optional number: None and 0 are falsy
Truthy(x) == x # Null /\ Val(x) # 0

-----------------------------------------------------------------------------
(* Exact rationals *)

Abs(x) == IF x < 0 THEN -x ELSE x

RECURSIVE Gcd(_, _)
Gcd(a, b) == IF b = 0 THEN a ELSE Gcd(b, a % b)

Rat(n, d) ==
    LET s == IF d < 0 THEN -1 ELSE 1
        g == Gcd(Abs(n), Abs(d))
    IN  <<(s * n) \div g, (s * d) \div g>>

R(n) == <<n, 1>>
RAdd(a, b) ==
    LET g == Gcd(a[2], b[2])
    IN  Rat(a[1] * (b[2] \div g) + b[1] * (a[2] \div g), a[2] * (b[2] \div g))
RSub(a, b) == RAdd(a, <<-b[1], b[2]>>)
RMul(a, b) == Rat(a[1] * b[1], a[2] * b[2])
RDiv(a, b) == Rat(a[1] * b[2], a[2] * b[1])
RNeg(a) == <<-a[1], a[2]>>
RAbs(a) == <<Abs(a[1]), a[2]>>
RLt(a, b) ==
    LET g == Gcd(a[2], b[2])
    IN  a[1] * (b[2] \div g) < b[1] * (a[2] \div g)
RLe(a, b) == a = b \/ RLt(a, b)
RZero == R(0)

RECURSIVE Pow10(_)
Pow10(k) == IF k = 0 THEN 1 ELSE 10 * Pow10(k - 1)

\* Python round(x, k): to k decimals, ties to even (on the exact value)
Round(x, k) ==
    LET n == x[1] * Pow10(k)
        d == x[2]
        f == n \div d
        r == n % d
        q == IF 2 * r < d THEN f
             ELSE IF 2 * r > d THEN f + 1
             ELSE IF f % 2 = 0 THEN f ELSE f + 1
    IN  Rat(q, Pow10(k))

-----------------------------------------------------------------------------
(* Evaluation shared by both evaluators *)

Leverage == 500

TPLevels == 1..6

\* mutant: "len(tp_hits)", the number of levels hit
highest_tp_count(tp_hits) == Cardinality(tp_hits)

\* max(tp_hits) if tp_hits else 0
highest_tp_of(tp_hits) ==
    IF tp_hits = {} THEN 0
    ELSE CHOOSE m \in tp_hits : \A k \in tp_hits : k <= m

\* a Python call either returns a value or raises
Return(v) == [kind |-> "return", value |-> v]
Raise(e) == [kind |-> "raise", error |-> e]
NotRun == [kind |-> "none"]

-----------------------------------------------------------------------------
(* StrategyOptimizer.calculate_signal_profit *)

\* {'LOW': 1, 'MEDIUM': 2, 'HIGH': 3}.get(signal['risk_level'], 2)
opt_risk_percent(risk_level) ==
    IF risk_level = "LOW" THEN 1
    ELSE IF risk_level = "MEDIUM" THEN 2
    ELSE IF risk_level = "HIGH" THEN 3
    ELSE 2

\* the value of a strategy entry kept as an integer percentage
Fraction(p) == Rat(p, 100)

\* mutant: the price move without abs(), negative below the entry
opt_tp_profit_signed(entry_price, tp_price, strategy_percent, risk_percent) ==
    LET price_move == RSub(tp_price, entry_price)
        price_move_percent == RMul(RDiv(price_move, entry_price), R(100))
        leveraged_move == RMul(price_move_percent, R(Leverage))
    IN  RMul(RMul(leveraged_move, strategy_percent), Rat(risk_percent, 100))

\* one iteration's tp_profit (lines 106-112)
opt_tp_profit(entry_price, tp_price, strategy_percent, risk_percent) ==
    LET price_move == RAbs(RSub(tp_price, entry_price))
        price_move_percent == RMul(RDiv(price_move, entry_price), R(100))
        leveraged_move == RMul(price_move_percent, R(Leverage))
    IN  RMul(RMul(leveraged_move, strategy_percent), Rat(risk_percent, 100))

\* mutant: every level priced at tp1, "signal.get('tp1')" for "f'tp{tp_num}'"
RECURSIVE opt_loop_tp1_price(_, _, _, _, _)
opt_loop_tp1_price(signal, strat, entry_price, tp_num, total_profit) ==
    IF tp_num > signal.highest_tp THEN total_profit
    ELSE LET tp_price == signal.tp[1]
         IN  IF ~Truthy(tp_price)
             THEN opt_loop_tp1_price(signal, strat, entry_price, tp_num + 1, total_profit)
             ELSE opt_loop_tp1_price(signal, strat, entry_price, tp_num + 1,
                      RAdd(total_profit,
                           opt_tp_profit(entry_price, R(Val(tp_price)),
                                         Fraction(strat[tp_num]),
                                         opt_risk_percent(signal.risk_level))))

\* mutant: "for i in range(6)", every level paid whether hit or not
RECURSIVE opt_loop_all_levels(_, _, _, _, _)
opt_loop_all_levels(signal, strat, entry_price, tp_num, total_profit) ==
    IF tp_num > 6 THEN total_profit
    ELSE LET tp_price == signal.tp[tp_num]
         IN  IF ~Truthy(tp_price)
             THEN opt_loop_all_levels(signal, strat, entry_price, tp_num + 1, total_profit)
             ELSE opt_loop_all_levels(signal, strat, entry_price, tp_num + 1,
                      RAdd(total_profit,
                           opt_tp_profit(entry_price, R(Val(tp_price)),
                                         Fraction(strat[tp_num]),
                                         opt_risk_percent(signal.risk_level))))

\* the loop "for i in range(highest_tp)", from iteration tp_num on
RECURSIVE opt_loop(_, _, _, _, _)
opt_loop(signal, strat, entry_price, tp_num, total_profit) ==
    IF tp_num > signal.highest_tp THEN total_profit
    ELSE LET tp_price == signal.tp[tp_num]
         IN  IF ~Truthy(tp_price)
             THEN opt_loop(signal, strat, entry_price, tp_num + 1, total_profit)
             ELSE opt_loop(signal, strat, entry_price, tp_num + 1,
                      RAdd(total_profit,
                           opt_tp_profit(entry_price, R(Val(tp_price)),
                                         Fraction(strat[tp_num]),
                                         opt_risk_percent(signal.risk_level))))

\* mutant: the stop-loss branch is missing, an SL signal runs the empty TP loop
calculate_signal_profit_no_sl(signal, strat) ==
    IF signal.entry_price = Null
    THEN Raise("TypeError")
    ELSE IF Val(signal.entry_price) = 0
    THEN Return(RZero)
    ELSE Return(opt_loop(signal, strat, R(Val(signal.entry_price)), 1, RZero))

calculate_signal_profit(signal, strat) ==
    IF signal.highest_tp = 0
    THEN Return(R(-opt_risk_percent(signal.risk_level)))
    ELSE IF signal.entry_price = Null
    THEN Raise("TypeError")                      \* float(None), line 87
    ELSE IF Val(signal.entry_price) = 0
    THEN Return(RZero)
    ELSE Return(opt_loop(signal, strat, R(Val(signal.entry_price)), 1, RZero))

\* the signal dict load_signals builds from a row (lines 46-59)
signal_of(r) ==
    [signal_number |-> r.signal_number,
     symbol        |-> r.symbol,
     action        |-> r.action,
     entry_price   |-> r.entry_price,
     tp            |-> r.tp,
     risk_level    |-> r.risk_level,
     tps_hit       |-> r.tp_hits,
     highest_tp    |-> highest_tp_of(r.tp_hits)]

-----------------------------------------------------------------------------
(* get_signal_history_fallback: the evaluation of one row (lines 800-988) *)

\* 'XAU' in row['symbol']
Contains(sym, pat) ==
    \E i \in 0..(Len(sym) - Len(pat)) : SubSeq(sym, i + 1, i + Len(pat)) = pat

IsGold(sym) == Contains(sym, <<"X", "A", "U">>) \/ Contains(sym, <<"G", "O", "L", "D">>)
IsBitcoin(sym) == Contains(sym, <<"B", "T", "C">>)
                     \/ Contains(sym, <<"B", "I", "T", "C", "O", "I", "N">>)
IsNasdaq(sym) == Contains(sym, <<"N", "A", "S">>)
                    \/ Contains(sym, <<"U", "S", "1", "0", "0">>)
                    \/ Contains(sym, <<"N", "D", "X">>)
IsJPY(sym) == Contains(sym, <<"J", "P", "Y">>)

\* mutant: the JPY test first in the stop-loss branch's chain
sl_pip_multiplier_jpy_first(sym) ==
    IF IsJPY(sym) THEN Rat(1, 100)
    ELSE IF IsGold(sym) THEN Rat(10, 100)
    ELSE IF IsBitcoin(sym) THEN R(1)
    ELSE IF IsNasdaq(sym) THEN R(1)
    ELSE Rat(1, 10000)

\* the pip multiplier chain of the stop-loss branch (lines 836-845)
sl_pip_multiplier(sym) ==
    IF IsGold(sym) THEN Rat(10, 100)
    ELSE IF IsBitcoin(sym) THEN R(1)
    ELSE IF IsNasdaq(sym) THEN R(1)
    ELSE IF IsJPY(sym) THEN Rat(1, 100)
    ELSE Rat(1, 10000)

\* the pip multiplier chain of the take-profit branch (lines 867-876), whose
\* value the breakdown loop uses as well
pip_multiplier(sym) ==
    IF IsGold(sym) THEN Rat(10, 100)
    ELSE IF IsBitcoin(sym) THEN R(1)
    ELSE IF IsNasdaq(sym) THEN R(1)
    ELSE IF IsJPY(sym) THEN Rat(1, 100)
    ELSE Rat(1, 10000)

\* mutant: the Nasdaq test missing from the estimate chain
sl_pips_estimate_no_nasdaq(sym) ==
    IF IsGold(sym) THEN R(-30)
    ELSE IF IsBitcoin(sym) THEN R(-400)
    ELSE R(-30)

\* the stop-loss pip estimate (lines 855-862)
sl_pips_estimate(sym) ==
    IF IsGold(sym) THEN R(-30)
    ELSE IF IsBitcoin(sym) THEN R(-400)
    ELSE IF IsNasdaq(sym) THEN R(-75)
    ELSE R(-30)

\* mutant: an absent risk level taken for LOW
dash_risk_percent_default_low(risk_level) ==
    LET lvl == IF risk_level = "None" \/ risk_level = "" THEN "LOW" ELSE risk_level
    IN  IF lvl = "LOW" THEN 1 ELSE IF lvl = "HIGH" THEN 3 ELSE 2

\* lines 821-827
dash_risk_percent(risk_level) ==
    LET lvl == IF risk_level = "None" \/ risk_level = "" THEN "MEDIUM" ELSE risk_level
    IN  IF lvl = "LOW" THEN 1 ELSE IF lvl = "HIGH" THEN 3 ELSE 2

\* pips signed by direction (lines 848-851, 879-882, 928-931)
directed_pips(action, entry_price, price, pip) ==
    IF action = "BUY"
    THEN RDiv(RSub(R(price), R(entry_price)), pip)
    ELSE RDiv(RSub(R(entry_price), R(price)), pip)

\* row['tp6'] is not None
has_tp6_of(r) == r.tp[6] # Null

\* mutant: TP5 closes the position whether or not the signal has a TP6
cumulative_exit_tp5_closes(highest_tp, has_tp6) ==
    IF highest_tp = 1 THEN 50
    ELSE IF highest_tp = 2 THEN 70
    ELSE IF highest_tp = 3 THEN 80
    ELSE IF highest_tp = 4 THEN 90
    ELSE 100

\* the cumulative exit factor of lines 893-916, in percent
cumulative_exit(highest_tp, has_tp6) ==
    IF highest_tp = 1 THEN 50
    ELSE IF highest_tp = 2 THEN 70
    ELSE IF highest_tp = 3 THEN 80
    ELSE IF highest_tp = 4 THEN 90
    ELSE IF highest_tp = 5 THEN (IF has_tp6 THEN 95 ELSE 100)
    ELSE 100

\* the partial exit of one level (lines 938-951), in percent
partial_exit(tp_level, has_tp6) ==
    IF tp_level = 1 THEN 50
    ELSE IF tp_level = 2 THEN 20
    ELSE IF tp_level = 3 THEN 10
    ELSE IF tp_level = 4 THEN 10
    ELSE IF tp_level = 5 THEN (IF has_tp6 THEN 5 ELSE 10)
    ELSE IF tp_level = 6 THEN 5
    ELSE 0

\* profit_percent of a TP outcome (lines 886-916)
dash_tp_profit(r, exit_price, highest_tp) ==
    LET entry == R(Val(r.entry_price))
        price_move_percent ==
            RMul(RDiv(RAbs(RSub(R(Val(exit_price)), entry)), entry), R(100))
        leveraged_move == RMul(price_move_percent, R(Leverage))
    IN  RMul(RMul(leveraged_move, Fraction(cumulative_exit(highest_tp, has_tp6_of(r)))),
             Rat(dash_risk_percent(r.risk_level), 100))

\* mutant: the breakdown pips without the SELL case
breakdown_row_buy_only(r, exit_price, tp_level) ==
    LET tp_price == Val(r.tp[tp_level])
        priced == Truthy(exit_price) /\ Truthy(r.entry_price)
        tp_pips == IF priced
                   THEN directed_pips("BUY", Val(r.entry_price), tp_price,
                                      pip_multiplier(r.symbol))
                   ELSE RZero
        tp_price_move ==
            IF Truthy(r.entry_price)
            THEN RMul(RDiv(RAbs(RSub(R(tp_price), R(Val(r.entry_price)))),
                           R(Val(r.entry_price))), R(100))
            ELSE RZero
        tp_leveraged_move == RMul(tp_price_move, R(Leverage))
        pe == partial_exit(tp_level, has_tp6_of(r))
        tp_profit == RMul(RMul(tp_leveraged_move, Fraction(pe)),
                          Rat(dash_risk_percent(r.risk_level), 100))
    IN  [tp_level |-> tp_level,
         price |-> Round(R(tp_price), IF IsJPY(r.symbol) THEN 3 ELSE 2),
         pips |-> Round(tp_pips, 1),
         partial_exit_percent |-> pe,
         profit_percent |-> Round(tp_profit, 2),
         tp_profit |-> tp_profit]

\* one tp_breakdown row (lines 923-961); tp_profit is the unrounded local
breakdown_row(r, exit_price, tp_level) ==
    LET tp_price == Val(r.tp[tp_level])
        priced == Truthy(exit_price) /\ Truthy(r.entry_price)
        tp_pips == IF priced
                   THEN directed_pips(r.action, Val(r.entry_price), tp_price,
                                      pip_multiplier(r.symbol))
                   ELSE RZero
        tp_price_move ==
            IF Truthy(r.entry_price)
            THEN RMul(RDiv(RAbs(RSub(R(tp_price), R(Val(r.entry_price)))),
                           R(Val(r.entry_price))), R(100))
            ELSE RZero
        tp_leveraged_move == RMul(tp_price_move, R(Leverage))
        pe == partial_exit(tp_level, has_tp6_of(r))
        tp_profit == RMul(RMul(tp_leveraged_move, Fraction(pe)),
                          Rat(dash_risk_percent(r.risk_level), 100))
    IN  [tp_level |-> tp_level,
         price |-> Round(R(tp_price), IF IsJPY(r.symbol) THEN 3 ELSE 2),
         pips |-> Round(tp_pips, 1),
         partial_exit_percent |-> pe,
         profit_percent |-> Round(tp_profit, 2),
         tp_profit |-> tp_profit]

\* the loop "for tp_level in range(1, highest_tp + 1)" (lines 922-961)
RECURSIVE tp_breakdown_of(_, _, _, _)
tp_breakdown_of(r, exit_price, highest_tp, tp_level) ==
    IF tp_level > highest_tp THEN <<>>
    ELSE IF ~Truthy(r.tp[tp_level])
    THEN tp_breakdown_of(r, exit_price, highest_tp, tp_level + 1)
    ELSE <<breakdown_row(r, exit_price, tp_level)>>
             \o tp_breakdown_of(r, exit_price, highest_tp, tp_level + 1)

\* the body of "for row in rows": the signal dict, with the unrounded locals
\* pips and profit_percent kept beside it as raw_pips and raw_profit_percent
fallback_signal(r) ==
    LET highest_tp == highest_tp_of(r.tp_hits)
        exit_price == IF highest_tp = 0 THEN r.stop_loss ELSE r.tp[highest_tp]
        risk_percent == dash_risk_percent(r.risk_level)
        priced == Truthy(exit_price) /\ Truthy(r.entry_price)
        pips == IF highest_tp = 0
                THEN IF priced
                     THEN directed_pips(r.action, Val(r.entry_price), Val(exit_price),
                                        sl_pip_multiplier(r.symbol))
                     ELSE sl_pips_estimate(r.symbol)
                ELSE IF priced
                     THEN directed_pips(r.action, Val(r.entry_price), Val(exit_price),
                                        pip_multiplier(r.symbol))
                     ELSE RZero
        profit_percent ==
            IF highest_tp = 0 THEN R(-risk_percent)
            ELSE IF priced THEN dash_tp_profit(r, exit_price, highest_tp)
            ELSE RZero
    IN  [kind |-> "return",
         signal_number |-> r.signal_number,
         entry_price |-> r.entry_price,
         highest_tp |-> highest_tp,
         outcome |-> IF highest_tp = 0 THEN "SL Hit"
                     ELSE "TP" \o ToString(highest_tp) \o " Hit",
         outcome_class |-> IF highest_tp = 0 THEN "loss" ELSE "win",
         exit_price |-> exit_price,
         risk_level |-> IF r.risk_level = "None" \/ r.risk_level = ""
                        THEN "MEDIUM" ELSE r.risk_level,
         pips |-> IF pips # RZero THEN Round(pips, 1) ELSE RZero,
         profit_percent |-> IF profit_percent # RZero THEN Round(profit_percent, 2)
                            ELSE RZero,
         tp_breakdown |-> tp_breakdown_of(r, exit_price, highest_tp, 1),
         raw_pips |-> pips,
         raw_profit_percent |-> profit_percent]

-----------------------------------------------------------------------------
(* The rows and strategies the evaluators are run on *)

Entry0 == 100        \* the non-zero entry price
TPGap == 5           \* distance between consecutive TP prices
MaxAbsent == 2       \* at most this many of tp1..tp6 are NULL in a row

XAUUSD == <<"X", "A", "U", "U", "S", "D">>
EURUSD == <<"E", "U", "R", "U", "S", "D">>
Symbols == {XAUUSD, EURUSD}
Actions == {"BUY", "SELL"}
RiskLevels == {"LOW", "MEDIUM", "HIGH", "None"}
EntryPrices == {Null, Some(0), Some(Entry0)}
StopLosses == {Null, Some(Entry0 - TPGap)}
TPPrice(i) == Entry0 + i * TPGap

TPColumns ==
    {[i \in TPLevels |-> IF i \in m THEN Some(TPPrice(i)) ELSE Null] :
        m \in {x \in SUBSET TPLevels : Cardinality(TPLevels \ x) <= MaxAbsent}}

\* announced TP levels of a signal: levels are announced in order
TPHits == {1..k : k \in 0..6}

Rows ==
    [signal_number : {1}, symbol : Symbols, action : Actions,
     entry_price : EntryPrices, stop_loss : StopLosses, tp : TPColumns,
     risk_level : RiskLevels, tp_hits : TPHits]

default_strategy == <<50, 20, 10, 10, 10, 0>>

\* strategies a caller hands to calculate_signal_profit; the last sums to 150
EvalStrategies ==
    {default_strategy, <<100, 0, 0, 0, 0, 0>>, <<50, 50, 50, 0, 0, 0>>}

StrategySum(strat) == strat[1] + strat[2] + strat[3] + strat[4] + strat[5] + strat[6]

-----------------------------------------------------------------------------
(* Specification of the two evaluators on one row *)

IdleGen == step = 0 /\ include_tp6 = FALSE /\ strategies = <<>>
IdleDash ==
    hist_req = <<>> /\ hist_resp = NotRun /\ trader_stats = <<>> /\ stats_req = <<>>
IdleOpt == /\ db = <<>> /\ signals = <<>> /\ baseline = NotRun /\ results = <<>>
           /\ scored = 0 /\ report = <<>> /\ ret = NotRun /\ port_out = NotRun
IdleEval == /\ row = <<>> /\ strategy = <<>> /\ opt_out = NotRun /\ dash_out = NotRun
            /\ strategy2 = <<>> /\ opt_out2 = NotRun

Init ==
    /\ pc = "eval"
    /\ row \in Rows
    /\ strategy = <<>>
    /\ opt_out = NotRun
    /\ dash_out = NotRun
    /\ strategy2 = <<>>
    /\ opt_out2 = NotRun
    /\ IdleGen
    /\ IdleOpt
    /\ IdleDash

\* a caller evaluates the signal with a strategy of its choice
CalculateSignalProfit ==
    /\ pc = "eval"
    /\ opt_out = NotRun
    /\ \E strat \in EvalStrategies :
          /\ strategy' = strat
          /\ opt_out' = calculate_signal_profit(signal_of(row), strat)
    /\ UNCHANGED <<pc, row, dash_out, strategy2, opt_out2, genVars, optVars, dashVars>>

\* the dashboard fallback evaluates the row
FallbackSignal ==
    /\ pc = "eval"
    /\ dash_out = NotRun
    /\ dash_out' = fallback_signal(row)
    /\ UNCHANGED <<pc, row, strategy, opt_out, strategy2, opt_out2, genVars, optVars,
                   dashVars>>

Next == CalculateSignalProfit \/ FallbackSignal

Spec == Init /\ [][Next]_vars

-----------------------------------------------------------------------------
(* Claims about the evaluators, checked under Spec *)

\* the risk table of the data model: LOW 1, MEDIUM 2, HIGH 3, absent = MEDIUM
ClaimRiskPercent(risk_level) ==
    IF risk_level = "LOW" THEN 1 ELSE IF risk_level = "HIGH" THEN 3 ELSE 2

OptRan == opt_out.kind # "none"
DashRan == dash_out.kind # "none"
HighestTP == highest_tp_of(row.tp_hits)

RECURSIVE SumTpProfit(_)
SumTpProfit(rows) ==
    IF rows = <<>> THEN RZero ELSE RAdd(rows[1].tp_profit, SumTpProfit(Tail(rows)))

\* C1: a signal with no TP hit evaluates to -risk_percent of its risk level (LOW -1,
\* MEDIUM -2, HIGH -3), whatever the strategy, the entry, the stop-loss and the TP
\* prices, in calculate_signal_profit and in the dashboard fallback alike.
C1_StopLossProfit ==
    HighestTP = 0 =>
        /\ OptRan => opt_out = Return(R(-ClaimRiskPercent(row.risk_level)))
        /\ DashRan => /\ dash_out.raw_profit_percent = R(-ClaimRiskPercent(row.risk_level))
                      /\ dash_out.profit_percent = R(-ClaimRiskPercent(row.risk_level))

C1_Witness ==
    /\ HighestTP = 0 /\ row.risk_level = "HIGH"
    /\ row.entry_price = Null /\ row.stop_loss = Null
    /\ OptRan /\ DashRan /\ strategy # default_strategy
    /\ opt_out.value = R(-3) /\ dash_out.profit_percent = R(-3)

\* C2: for a TP outcome with the entry price and every TP price of levels
\* 1..highest_tp present, the tp_breakdown contributions sum to profit_percent
\* (unrounded).  The dashboard fallback does not satisfy it.
C2_BreakdownSumsToProfit ==
    (/\ DashRan /\ HighestTP >= 1 /\ Truthy(row.entry_price)
     /\ \A i \in 1..HighestTP : Truthy(row.tp[i]))
        => SumTpProfit(dash_out.tp_breakdown) = dash_out.raw_profit_percent

\* the per-level sum the claims describe, f being the fractions (in percent)
RECURSIVE ClaimLevelSum(_, _, _)
ClaimLevelSum(r, f, i) ==
    IF i = 0 THEN RZero
    ELSE IF ~Truthy(r.tp[i]) THEN ClaimLevelSum(r, f, i - 1)
    ELSE RAdd(ClaimLevelSum(r, f, i - 1),
              Rat(Abs(Val(r.tp[i]) - Val(r.entry_price)) * 100 * 500 * f[i]
                      * ClaimRiskPercent(r.risk_level),
                  Val(r.entry_price) * 100 * 100))

\* the dashboard's own fractions, in percent
DashFractions(r) == [i \in TPLevels |-> partial_exit(i, has_tp6_of(r))]

\* C3: for a TP outcome profit_percent is the sum over the priced levels
\* 1..highest_tp of abs(tp_i - entry)/entry * 100 * 500 * f_i * risk_percent/100.
\* calculate_signal_profit computes this; the dashboard fallback does not.
C3_ProfitIsLevelSum ==
    (HighestTP >= 1 /\ Truthy(row.entry_price)) =>
        /\ OptRan => opt_out = Return(ClaimLevelSum(row, strategy, HighestTP))
        /\ DashRan => dash_out.raw_profit_percent
                          = ClaimLevelSum(row, DashFractions(row), HighestTP)

\* C6: a strategy whose fractions do not sum to 1.0 is rejected: evaluating a
\* signal with it never returns a profit value.  The code has no such check.
C6_InvalidStrategyRejected ==
    (OptRan /\ StrategySum(strategy) # 100) => opt_out.kind # "return"

\* C9: a TP outcome whose entry price is zero or absent never raises and yields
\* profit_percent = 0 and pips = 0.  calculate_signal_profit raises on an absent
\* entry price.
C9_NoEntryIsNeutral ==
    (HighestTP >= 1 /\ ~Truthy(row.entry_price)) =>
        /\ OptRan => opt_out = Return(RZero)
        /\ DashRan => /\ dash_out.kind = "return"
                      /\ dash_out.profit_percent = RZero
                      /\ dash_out.pips = RZero

\* C10: a level of 1..highest_tp without a price contributes nothing and gets no
\* breakdown row, nothing raises, and the levels that have a price still
\* contribute their normal amounts to profit_percent.  The dashboard fallback
\* does not keep the last part.
C10_MissingLevelSkipped ==
    (/\ HighestTP >= 1 /\ Truthy(row.entry_price)
     /\ \E i \in 1..HighestTP : ~Truthy(row.tp[i])) =>
        /\ OptRan => opt_out = Return(ClaimLevelSum(row, strategy, HighestTP))
        /\ DashRan =>
              /\ dash_out.kind = "return"
              /\ \A k \in 1..Len(dash_out.tp_breakdown) :
                     Truthy(row.tp[dash_out.tp_breakdown[k].tp_level])
              /\ dash_out.raw_profit_percent
                     = ClaimLevelSum(row, DashFractions(row), HighestTP)

RECURSIVE SumPartialExit(_)
SumPartialExit(rows) ==
    IF rows = <<>> THEN 0
    ELSE rows[1].partial_exit_percent + SumPartialExit(Tail(rows))

\* the factors of the claim by highest level: TP5 is 95 with a TP6 price
ClaimFactor(k, with_tp6) ==
    IF k = 5 THEN (IF with_tp6 THEN 95 ELSE 100) ELSE <<50, 70, 80, 90, 0, 100>>[k]

\* C24: for a TP outcome of the dashboard with the entry price and the prices
\* of levels 1..highest_tp recorded, the profit is the leveraged move to the
\* exit price times risk_percent/100 times a cumulative factor (50, 70, 80, 90,
\* 95 or 100 at TP5, 100 at TP6, in percent) that equals the sum of the
\* partial-exit percentages of the breakdown rows; the TP5 row has 5% when the
\* signal has a TP6 price and 10% otherwise, the default strategy of the
\* optimizer always 10%.
C24_CumulativeFactorIsFractionSum ==
    (/\ DashRan /\ HighestTP >= 1 /\ Truthy(row.entry_price)
     /\ \A i \in 1..HighestTP : Truthy(row.tp[i]))
        => LET total == SumPartialExit(dash_out.tp_breakdown)
               entry == Val(row.entry_price)
               move == Rat(Abs(Val(row.tp[HighestTP]) - entry) * 100 * Leverage, entry)
           IN  /\ total = ClaimFactor(HighestTP, row.tp[6] # Null)
               /\ dash_out.raw_profit_percent
                      = RMul(RMul(move, Rat(total, 100)),
                             Rat(ClaimRiskPercent(row.risk_level), 100))
               /\ \A i \in 1..Len(dash_out.tp_breakdown) :
                      dash_out.tp_breakdown[i].tp_level = 5 =>
                          /\ dash_out.tp_breakdown[i].partial_exit_percent
                                 = (IF row.tp[6] # Null THEN 5 ELSE 10)
                          /\ default_strategy[5] = 10

\* a TP5 outcome of a signal with a TP6 price: the five rows sum to 95
C24_Witness ==
    /\ DashRan /\ HighestTP = 5 /\ Truthy(row.entry_price) /\ row.tp[6] # Null
    /\ Len(dash_out.tp_breakdown) = 5
    /\ SumPartialExit(dash_out.tp_breakdown) = 95
    /\ dash_out.tp_breakdown[5].partial_exit_percent = 5
    /\ RLt(RZero, dash_out.raw_profit_percent)

-----------------------------------------------------------------------------
(* StrategyOptimizer.generate_strategies *)

\* mutant: range(0, 100, step), which leaves 100 out
percentages_upto_99(stp) == [k \in 1..(((100 - 1) \div stp) + 1) |-> (k - 1) * stp]

\* mutant: 100 is a percentage whatever the step
percentages_with_100(stp) ==
    LET n == (100 \div stp) + 1
    IN  [k \in 1..n |-> (k - 1) * stp] \o (IF 100 % stp = 0 THEN <<>> ELSE <<100>>)

\* list(range(0, 101, step)) for step >= 1
percentages_of(stp) == [k \in 1..((100 \div stp) + 1) |-> (k - 1) * stp]

\* mutant: the innermost test is "<= 100" instead of "== 100"
RECURSIVE gen_loops_upto_100(_, _, _, _, _)
gen_loops_upto_100(percentages, prefix, total, free, k) ==
    IF free = 1
    THEN LET hits == SelectSeq(percentages, LAMBDA p : total + p <= 100)
         IN  [j \in 1..Len(hits) |->
                 Append(prefix, hits[j]) \o [i \in 1..(5 - Len(prefix)) |-> 0]]
    ELSE IF k > Len(percentages) THEN <<>>
    ELSE gen_loops_upto_100(percentages, Append(prefix, percentages[k]),
                            total + percentages[k], free - 1, 1)
             \o gen_loops_upto_100(percentages, prefix, total, free, k + 1)

\* The nested "for tpN in percentages" loops below a chosen prefix of loop
\* variables: k indexes the current loop's variable, free counts the loops still
\* to open, total is the sum of the prefix.  The innermost loop appends, in the
\* order of percentages, the strategy of every value that brings the sum to
\* 100; a strategy is kept as its six integer percentages (the code stores each
\* divided by 100).
RECURSIVE gen_loops(_, _, _, _, _)
gen_loops(percentages, prefix, total, free, k) ==
    IF free = 1
    THEN LET hits == SelectSeq(percentages, LAMBDA p : total + p = 100)
         IN  [j \in 1..Len(hits) |->
                 Append(prefix, hits[j]) \o [i \in 1..(5 - Len(prefix)) |-> 0]]
    ELSE IF k > Len(percentages) THEN <<>>
    ELSE gen_loops(percentages, Append(prefix, percentages[k]),
                   total + percentages[k], free - 1, 1)
             \o gen_loops(percentages, prefix, total, free, k + 1)

generate_strategies(stp, with_tp6) ==
    gen_loops(percentages_of(stp), <<>>, 0, IF with_tp6 THEN 6 ELSE 5, 1)

-----------------------------------------------------------------------------
(* Specification of generate_strategies on its own *)

DefaultStep == 5     \* the step of the script's run and the parameter default
StepsBelow == 90     \* steps from 100 - StepsBelow on are tried without TP6
StepsBelowTP6 == 80  \* steps from 100 - StepsBelowTP6 on are tried with TP6
StepsAbove == 1      \* steps up to 100 + StepsAbove are tried

GenInputs ==
    {<<s, FALSE>> : s \in {DefaultStep} \cup ((100 - StepsBelow)..(100 + StepsAbove))}
        \cup {<<s, TRUE>> : s \in (100 - StepsBelowTP6)..(100 + StepsAbove)}

InitGen ==
    /\ pc = "gen"
    /\ \E inp \in GenInputs : step = inp[1] /\ include_tp6 = inp[2]
    /\ strategies = <<>>
    /\ IdleEval
    /\ IdleOpt
    /\ IdleDash

GenerateStrategies ==
    /\ pc = "gen"
    /\ strategies' = generate_strategies(step, include_tp6)
    /\ pc' = "generated"
    /\ UNCHANGED <<step, include_tp6, evalVars, optVars, dashVars>>

NextGen == GenerateStrategies

SpecGen == InitGen /\ [][NextGen]_vars

-----------------------------------------------------------------------------
(* Claims about generate_strategies, checked under SpecGen *)

ValidStrategy(strat) ==
    /\ Len(strat) = 6
    /\ \A i \in 1..6 : strat[i] >= 0
    /\ StrategySum(strat) = 100

\* C4: every generated strategy, and the baseline, has six non-negative
\* fractions summing to exactly 100 percent; without include_tp6 the sixth is 0.
C4_StrategiesSumTo100 ==
    /\ ValidStrategy(default_strategy)
    /\ \A j \in 1..Len(strategies) :
          /\ ValidStrategy(strategies[j])
          /\ ~include_tp6 => strategies[j][6] = 0

C4_Witness ==
    /\ pc = "generated" /\ include_tp6 /\ step = 20
    /\ \E j \in 1..Len(strategies) : strategies[j][6] > 0 /\ strategies[j][1] > 0

\* the k-tuples of naturals that sum to n
RECURSIVE Compositions(_, _)
Compositions(n, k) ==
    IF k = 1 THEN {<<n>>}
    ELSE UNION {{<<a>> \o t : t \in Compositions(n - a, k - 1)} : a \in 0..n}

\* every tuple of multiples of stp in [0,100] over the free slots summing to 100
ExpectedStrategies(stp, free) ==
    {[i \in 1..6 |-> IF i <= free THEN t[i] * stp ELSE 0] :
        t \in Compositions(100 \div stp, free)}

\* C5: for a step dividing 100 generate_strategies returns, exactly once each,
\* every tuple of multiples of step over the free slots that sums to 100; for
\* step 5 and five free slots these are 10,626 candidates.
C5_ExhaustiveNoDuplicates ==
    (pc = "generated" /\ 100 % step = 0) =>
        /\ {strategies[j] : j \in 1..Len(strategies)}
               = ExpectedStrategies(step, IF include_tp6 THEN 6 ELSE 5)
        /\ Cardinality({strategies[j] : j \in 1..Len(strategies)}) = Len(strategies)
        /\ (step = 5 /\ ~include_tp6) => Len(strategies) = 10626

C5_Witness ==
    /\ pc = "generated" /\ step = 5 /\ ~include_tp6
    /\ Len(strategies) = 10626
    /\ \E j \in 1..Len(strategies) : strategies[j] = default_strategy

-----------------------------------------------------------------------------
(* StrategyOptimizer.load_signals and calculate_portfolio_profit *)

\* rows "WHERE entry_price IS NOT NULL ORDER BY signal_number", each made a
\* signal dict; db is kept in signal_number order
load_signals(rows) ==
    LET kept == SelectSeq(rows, LAMBDA r : r.entry_price # Null)
    IN  [i \in 1..Len(kept) |-> signal_of(kept[i])]

\* mutant: "if profit >= 0: wins += 1", a push counted as a win
RECURSIVE portfolio_loop_push_wins(_, _, _, _)
portfolio_loop_push_wins(sigs, strat, i, acc) ==
    IF acc.kind = "raise" \/ i > Len(sigs) THEN acc
    ELSE LET out == calculate_signal_profit(sigs[i], strat)
         IN  IF out.kind = "raise" THEN out
             ELSE LET profit == out.value
                  IN  portfolio_loop_push_wins(sigs, strat, i + 1,
                        [kind |-> "return",
                         total_pl |-> RAdd(acc.total_pl, profit),
                         wins |-> IF RLe(RZero, profit) THEN acc.wins + 1 ELSE acc.wins,
                         losses |-> IF RLt(profit, RZero) THEN acc.losses + 1
                                    ELSE acc.losses,
                         signal_results |->
                             Append(acc.signal_results,
                                    [signal_number |-> sigs[i].signal_number,
                                     symbol |-> sigs[i].symbol,
                                     highest_tp |-> sigs[i].highest_tp,
                                     profit |-> profit])])

\* the loop "for signal in self.signals" from signal i on (lines 131-145);
\* acc carries total_pl, wins, losses and signal_results
RECURSIVE portfolio_loop(_, _, _, _)
portfolio_loop(sigs, strat, i, acc) ==
    IF acc.kind = "raise" \/ i > Len(sigs) THEN acc
    ELSE LET out == calculate_signal_profit(sigs[i], strat)
         IN  IF out.kind = "raise" THEN out
             ELSE LET profit == out.value
                  IN  portfolio_loop(sigs, strat, i + 1,
                        [kind |-> "return",
                         total_pl |-> RAdd(acc.total_pl, profit),
                         wins |-> IF RLt(RZero, profit) THEN acc.wins + 1 ELSE acc.wins,
                         losses |-> IF RLt(profit, RZero) THEN acc.losses + 1
                                    ELSE acc.losses,
                         signal_results |->
                             Append(acc.signal_results,
                                    [signal_number |-> sigs[i].signal_number,
                                     symbol |-> sigs[i].symbol,
                                     highest_tp |-> sigs[i].highest_tp,
                                     profit |-> profit])])

\* win_rate = (wins / len(self.signals) * 100) if self.signals else 0
win_rate_of(wins, sigs) ==
    IF sigs # <<>> THEN RMul(Rat(wins, Len(sigs)), R(100)) ELSE RZero

\* returns (total_pl, stats), or raises what calculate_signal_profit raises
calculate_portfolio_profit(sigs, strat) ==
    LET acc == portfolio_loop(sigs, strat, 1,
                   [kind |-> "return", total_pl |-> RZero, wins |-> 0, losses |-> 0,
                    signal_results |-> <<>>])
    IN  IF acc.kind = "raise" THEN acc
        ELSE [kind |-> "return",
              total_pl |-> acc.total_pl,
              stats |-> [total_pl_percent |-> acc.total_pl,
                         wins |-> acc.wins,
                         losses |-> acc.losses,
                         win_rate |-> win_rate_of(acc.wins, sigs),
                         signal_results |-> acc.signal_results]]

-----------------------------------------------------------------------------
(* StrategyOptimizer.optimize, step by step *)

\* mutant: sorted by total_pl ascending
sort_asc(rs, n) ==
    LET rank == <<>> \o [i \in 1..n |->
                    1 + Cardinality({j \in 1..n :
                            \/ RLt(rs[j].total_pl, rs[i].total_pl)
                            \/ rs[j].total_pl = rs[i].total_pl /\ j < i})]
    IN  [p \in 1..n |-> rs[CHOOSE i \in 1..n : rank[i] = p]]

\* mutant: the list left in the order of scoring
sort_desc_unsorted(rs, n) == [j \in 1..n |-> rs[j]]

\* results.sort(key=total_pl, reverse=True) on the n elements of rs: stable,
\* so an element comes after those of larger key and after the earlier
\* elements of equal key; rank is the tuple of the elements' final positions
sort_desc(rs, n) ==
    LET rank == <<>> \o [i \in 1..n |->
                    1 + Cardinality({j \in 1..n :
                            \/ RLt(rs[i].total_pl, rs[j].total_pl)
                            \/ rs[j].total_pl = rs[i].total_pl /\ j < i})]
    IN  [p \in 1..n |-> rs[CHOOSE i \in 1..n : rank[i] = p]]

\* mutant: "best_winrate = results[0]", the top P&L entry taken for it
top_by_total_pl(rs) == rs[1]

\* mutant: the last element of the largest win rate
max_by_win_rate_last(rs) ==
    LET j == CHOOSE j \in 1..Len(rs) :
                /\ \A k \in 1..Len(rs) : RLe(rs[k].stats.win_rate, rs[j].stats.win_rate)
                /\ \A k \in (j + 1)..Len(rs) :
                       rs[k].stats.win_rate # rs[j].stats.win_rate
    IN  rs[j]

\* max(results, key=win_rate): the first element of the largest win rate
max_by_win_rate(rs) ==
    LET j == CHOOSE j \in 1..Len(rs) :
                /\ \A k \in 1..Len(rs) : RLe(rs[k].stats.win_rate, rs[j].stats.win_rate)
                /\ \A k \in 1..(j - 1) : rs[k].stats.win_rate # rs[j].stats.win_rate
    IN  rs[j]

\* a printed number
Num(v) == [kind |-> "number", value |-> v]

\* line 291: ((pl - baseline_pl) / abs(baseline_pl) * 100) if baseline_pl != 0 else 0
top_improvement(pl, baseline_pl) ==
    IF baseline_pl # RZero
    THEN Num(RMul(RDiv(RSub(pl, baseline_pl), RAbs(baseline_pl)), R(100)))
    ELSE Num(RZero)

\* line 333: (best_strategy['total_pl'] - baseline_pl) / abs(baseline_pl) * 100
recommended_improvement(pl, baseline_pl) ==
    IF RAbs(baseline_pl) = RZero
    THEN Raise("ZeroDivisionError")
    ELSE Num(RMul(RDiv(RSub(pl, baseline_pl), RAbs(baseline_pl)), R(100)))

NoReport == [top |-> <<>>, best_winrate |-> <<>>, recommended |-> <<>>]

LoadSignals ==
    /\ pc = "optimize"
    /\ signals' = signals \o load_signals(db)
    /\ pc' = "loaded"
    /\ UNCHANGED <<db, baseline, results, scored, report, ret, genVars, evalVars, port_out,
                   dashVars>>

\* mutant: the empty check is missing, optimize goes on to the baseline
NoSignals_falls_through ==
    /\ pc = "loaded"
    /\ signals = <<>>
    /\ baseline' = calculate_portfolio_profit(signals, default_strategy)
    /\ pc' = "baseline"
    /\ UNCHANGED <<db, signals, results, scored, report, ret, genVars, evalVars, port_out,
                   dashVars>>

\* "if not self.signals: ... return"
NoSignals ==
    /\ pc = "loaded"
    /\ signals = <<>>
    /\ ret' = Return("None")
    /\ pc' = "done"
    /\ UNCHANGED <<db, signals, baseline, results, scored, report, genVars, evalVars, port_out,
                   dashVars>>

Baseline ==
    /\ pc = "loaded"
    /\ signals # <<>>
    /\ baseline' = calculate_portfolio_profit(signals, default_strategy)
    /\ pc' = "baseline"
    /\ UNCHANGED <<db, signals, results, scored, report, ret, genVars, evalVars, port_out,
                   dashVars>>

Generate ==
    /\ pc = "baseline"
    /\ strategies' = generate_strategies(step, include_tp6)
    /\ results' = <<>>
    /\ scored' = 0
    /\ pc' = "scoring"
    /\ UNCHANGED <<db, signals, baseline, report, ret, step, include_tp6, evalVars, port_out,
                   dashVars>>

\* one iteration of "for i, strategy in enumerate(strategies)"
ScoreStrategy ==
    /\ pc = "scoring"
    /\ scored < Len(strategies)
    /\ LET strat == strategies[scored + 1]
           out == calculate_portfolio_profit(signals, strat)
       IN  results' = Append(results, [strategy |-> strat,
                                       total_pl |-> out.total_pl,
                                       stats |-> out.stats])
    /\ scored' = scored + 1
    /\ UNCHANGED <<pc, db, signals, baseline, report, ret, genVars, evalVars, port_out,
                   dashVars>>

\* mutant: the sort inside the scoring loop, after any iteration
SortResults_inside_loop ==
    /\ pc = "scoring"
    /\ results' = sort_desc(results, Len(results))
    /\ pc' = "sorted"
    /\ UNCHANGED <<db, signals, baseline, scored, report, ret, genVars, evalVars, port_out,
                   dashVars>>

SortResults ==
    /\ pc = "scoring"
    /\ scored = Len(strategies)
    /\ results' = sort_desc(results, Len(results))
    /\ pc' = "sorted"
    /\ UNCHANGED <<db, signals, baseline, scored, report, ret, genVars, evalVars, port_out,
                   dashVars>>

TopN == 3            \* optimize's top_n

\* "for i, result in enumerate(results[:top_n], 1)"
ReportTopN ==
    /\ pc = "sorted"
    /\ report' = [report EXCEPT !.top =
          [i \in 1..(IF Len(results) < TopN THEN Len(results) ELSE TopN) |->
              [strategy |-> results[i].strategy,
               total_pl |-> results[i].total_pl,
               win_rate |-> results[i].stats.win_rate,
               improvement |-> top_improvement(results[i].total_pl,
                                               baseline.total_pl)]]]
    /\ pc' = "top"
    /\ UNCHANGED <<db, signals, baseline, results, scored, ret, genVars, evalVars, port_out,
                   dashVars>>

\* max() of an empty list raises ValueError
ReportBestWinRate ==
    /\ pc = "top"
    /\ IF results = <<>>
       THEN /\ ret' = Raise("ValueError")
            /\ pc' = "done"
            /\ UNCHANGED report
       ELSE /\ report' = [report EXCEPT !.best_winrate =
                  <<[strategy |-> max_by_win_rate(results).strategy,
                     total_pl |-> max_by_win_rate(results).total_pl,
                     win_rate |-> max_by_win_rate(results).stats.win_rate]>>]
            /\ pc' = "winrate"
            /\ UNCHANGED ret
    /\ UNCHANGED <<db, signals, baseline, results, scored, genVars, evalVars, port_out,
                   dashVars>>

\* the recommended strategy, its improvement over the baseline, "return results"
ReportRecommended ==
    /\ pc = "winrate"
    /\ LET best_strategy == results[1]
           improvement == recommended_improvement(best_strategy.total_pl,
                                                  baseline.total_pl)
       IN  IF improvement.kind = "raise"
           THEN /\ ret' = improvement
                /\ UNCHANGED report
           ELSE /\ ret' = Return("results")
                /\ report' = [report EXCEPT !.recommended =
                       <<[strategy |-> best_strategy.strategy,
                          total_pl |-> best_strategy.total_pl,
                          improvement |-> improvement]>>]
    /\ pc' = "done"
    /\ UNCHANGED <<db, signals, baseline, results, scored, genVars, evalVars, port_out,
                   dashVars>>

\* mutant: the call consumes the list, "while self.signals: self.signals.pop(0)"
PortfolioProfit_consumes_signals ==
    /\ pc = "done"
    /\ port_out = NotRun
    /\ \E strat \in EvalStrategies :
          /\ strategy' = strat
          /\ port_out' = calculate_portfolio_profit(signals, strat)
    /\ signals' = <<>>
    /\ UNCHANGED <<pc, row, opt_out, dash_out, strategy2, opt_out2, db,
                   baseline, results, scored, report, ret, genVars, dashVars>>

\* a caller asks the optimizer for the portfolio profit of a strategy
PortfolioProfit ==
    /\ pc = "done"
    /\ port_out = NotRun
    /\ \E strat \in EvalStrategies :
          /\ strategy' = strat
          /\ port_out' = calculate_portfolio_profit(signals, strat)
    /\ UNCHANGED <<pc, row, opt_out, dash_out, strategy2, opt_out2, db, signals,
                   baseline, results, scored, report, ret, genVars, dashVars>>

-----------------------------------------------------------------------------
(* Specification of optimize over small databases *)

MaxSignals == 2      \* rows in signal_details

OptRow(entry, risk, k) ==
    [signal_number |-> 0, symbol |-> XAUUSD, action |-> "BUY",
     entry_price |-> entry, stop_loss |-> Null,
     tp |-> [i \in TPLevels |-> Some(TPPrice(i))],
     risk_level |-> risk, tp_hits |-> 1..k]

\* a TP1 row whose TP1 price is the entry price
TPAtEntryRow == [OptRow(Some(Entry0), "LOW", 1) EXCEPT !.tp[1] = Some(Entry0)]

\* a TP2 row bought with its TP prices below the entry
BuyBelowRow == [OptRow(Some(Entry0), "LOW", 2) EXCEPT
                    !.tp = [i \in TPLevels |-> Some(Entry0 - i * TPGap)]]

\* stop-loss rows, TP1 and TP2 rows, a TP1 row with entry 0, a row without
\* entry, a row with TP1 at the entry and a row with the TPs on the far side
OptRowKinds ==
    {OptRow(Some(Entry0), risk, 0) : risk \in {"LOW", "HIGH"}}
        \cup {OptRow(Some(Entry0), "LOW", k) : k \in 1..2}
        \cup {OptRow(Some(0), "LOW", 1), OptRow(Null, "LOW", 1)}
        \cup {TPAtEntryRow, BuyBelowRow}

\* a row that hit TP1..TPk: a LOW risk BUY with the TP prices above the entry
\* or a HIGH risk SELL with the TP prices below it
UniformRow(action, k) ==
    [signal_number |-> 0, symbol |-> XAUUSD, action |-> action,
     entry_price |-> Some(Entry0), stop_loss |-> Null,
     tp |-> [i \in TPLevels |->
                Some(IF action = "BUY" THEN TPPrice(i) ELSE Entry0 - i * TPGap)],
     risk_level |-> IF action = "BUY" THEN "LOW" ELSE "HIGH", tp_hits |-> 1..k]

DBsOf(kinds) ==
    UNION {{[i \in 1..n |-> [ks[i] EXCEPT !.signal_number = i]] :
               ks \in [1..n -> kinds]} : n \in 0..MaxSignals}

\* the mixed tables, and the tables whose signals all ended at the same level
OptDBs ==
    DBsOf(OptRowKinds)
        \cup UNION {DBsOf({UniformRow(action, k) : action \in Actions}) : k \in 1..6}

\* (step, include_tp6): 30 does not divide 100
OptInputs == {<<50, FALSE>>, <<50, TRUE>>, <<100, FALSE>>, <<30, FALSE>>}

InitOpt ==
    /\ pc = "optimize"
    /\ db \in OptDBs
    /\ \E inp \in OptInputs : step = inp[1] /\ include_tp6 = inp[2]
    /\ strategies = <<>>
    /\ signals = <<>>
    /\ baseline = NotRun
    /\ results = <<>>
    /\ scored = 0
    /\ report = NoReport
    /\ ret = NotRun
    /\ port_out = NotRun
    /\ IdleEval
    /\ IdleDash

NextOpt ==
    \/ LoadSignals
    \/ NoSignals
    \/ Baseline
    \/ Generate
    \/ ScoreStrategy
    \/ SortResults
    \/ ReportTopN
    \/ ReportBestWinRate
    \/ ReportRecommended
    \/ PortfolioProfit

SpecOpt == InitOpt /\ [][NextOpt]_vars

-----------------------------------------------------------------------------
(* Claims about optimize, checked under SpecOpt *)

\* C7: with a baseline P&L of exactly zero every reported improvement is
\* undefined, never a number, and optimize does not fail with a division by
\* zero.  The code prints the number 0 in the top-N list and divides by zero
\* for the recommended strategy.
C7_ZeroBaselineImprovementUndefined ==
    (baseline.kind = "return" /\ baseline.total_pl = RZero) =>
        /\ \A i \in 1..Len(report.top) : report.top[i].improvement.kind = "undefined"
        /\ \A i \in 1..Len(report.recommended) :
               report.recommended[i].improvement.kind = "undefined"
        /\ ret # Raise("ZeroDivisionError")

\* C8: with no signal loaded optimize ends in the no-data outcome before any
\* strategy is generated or scored (no baseline, no ranking, no best-by-win-rate
\* entry), and calculate_portfolio_profit gives win rate 0 and total P&L 0.
C8_EmptySignalsNoData ==
    (pc # "optimize" /\ signals = <<>>) =>
        /\ pc \in {"loaded", "done"}
        /\ pc = "done" => ret = Return("None")
        /\ baseline = NotRun /\ strategies = <<>> /\ results = <<>> /\ scored = 0
        /\ report = NoReport
        /\ port_out # NotRun =>
              /\ port_out.kind = "return"
              /\ port_out.total_pl = RZero
              /\ port_out.stats.win_rate = RZero
              /\ port_out.stats.wins = 0 /\ port_out.stats.losses = 0

C8_Witness ==
    /\ pc = "done" /\ signals = <<>> /\ db # <<>>
    /\ ret = Return("None")
    /\ port_out.kind = "return" /\ port_out.stats.win_rate = RZero

\* the ranking exists: the sort has run and optimize has not failed since
Ranked ==
    \/ pc \in {"sorted", "top", "winrate"}
    \/ pc = "done" /\ ret = Return("results")

Count(seq, x) == Cardinality({i \in 1..Len(seq) : seq[i] = x})

\* C11: the ranking is in non-increasing order of total_pl (every adjacent pair
\* has earlier >= later) and is a permutation of exactly the generated
\* candidates: every generated strategy occurs as often in the ranking as in the
\* generated list, nothing else occurs, and each entry carries the portfolio
\* P&L of its own strategy.
C11_RankingSortedPermutation ==
    Ranked =>
        /\ \A i \in 1..(Len(results) - 1) :
               RLe(results[i + 1].total_pl, results[i].total_pl)
        /\ Len(results) = Len(strategies)
        /\ \A j \in 1..Len(strategies) :
               Count([i \in 1..Len(results) |-> results[i].strategy], strategies[j])
                   = Count(strategies, strategies[j])
        /\ \A i \in 1..Len(results) :
               /\ Count(strategies, results[i].strategy) > 0
               /\ results[i].total_pl
                      = calculate_portfolio_profit(signals, results[i].strategy).total_pl

\* a returned ranking of 15 candidates that the sort had to reorder, with a
\* strict descent and a tie
C11_Witness ==
    /\ pc = "done" /\ ret = Return("results")
    /\ Len(results) = 15
    /\ [i \in 1..Len(results) |-> results[i].strategy] # strategies
    /\ \E i \in 1..(Len(results) - 1) : RLt(results[i + 1].total_pl, results[i].total_pl)
    /\ \E i \in 1..(Len(results) - 1) : results[i + 1].total_pl = results[i].total_pl

\* the profit of signal i of the portfolio under strat
ProfitOf(i, strat) == calculate_signal_profit(signals[i], strat).value

RECURSIVE SumProfits(_, _)
SumProfits(n, strat) ==
    IF n = 0 THEN RZero ELSE RAdd(SumProfits(n - 1, strat), ProfitOf(n, strat))

\* what the claim says of one portfolio evaluation (total_pl, stats) of strat;
\* the win rate is scale * wins / number of signals
PortfolioClaim(total_pl, stats, strat, scale) ==
    LET n == Len(signals)
        won == {i \in 1..n : RLt(RZero, ProfitOf(i, strat))}
        lost == {i \in 1..n : RLt(ProfitOf(i, strat), RZero)}
    IN  /\ total_pl = SumProfits(n, strat)
        /\ stats.total_pl_percent = total_pl
        /\ stats.wins = Cardinality(won)
        /\ stats.losses = Cardinality(lost)
        /\ stats.wins + stats.losses <= n
        /\ n > 0 => stats.win_rate = RMul(R(scale), Rat(stats.wins, n))

\* every portfolio evaluation the run has made: the direct call, the baseline
\* and the scored candidates
EveryPortfolio(scale) ==
    /\ port_out.kind = "return" =>
           PortfolioClaim(port_out.total_pl, port_out.stats, strategy, scale)
    /\ baseline.kind = "return" =>
           PortfolioClaim(baseline.total_pl, baseline.stats, default_strategy, scale)
    /\ \A i \in 1..Len(results) :
           PortfolioClaim(results[i].total_pl, results[i].stats, results[i].strategy,
                          scale)

\* C12 as stated: for every strategy calculate_portfolio_profit returns the sum
\* of the per-signal profits, wins = number of profits > 0, losses = number of
\* profits < 0, pushes in neither (wins + losses <= number of signals), and a
\* win rate equal to wins divided by the number of signals.  The code returns
\* 100 times that ratio.
C12_WinRateIsRatio == EveryPortfolio(1)

\* C12 amended: the same, with the win rate a percentage, 100 * wins / number
\* of signals, and 0 for an empty portfolio.
C12_PortfolioTotals ==
    /\ EveryPortfolio(100)
    /\ (port_out.kind = "return" /\ signals = <<>>) => port_out.stats.win_rate = RZero

\* a direct call on two signals, one won and one a push, under a strategy
\* that is not the baseline: win rate 50
C12_Witness ==
    /\ port_out.kind = "return" /\ Len(signals) = 2
    /\ strategy # default_strategy
    /\ port_out.stats.wins = 1 /\ port_out.stats.losses = 0
    /\ port_out.stats.win_rate = R(50)
    /\ RLt(RZero, port_out.total_pl)

\* the allocation that puts 100% on level k
AllOn(k) == [i \in TPLevels |-> IF i = k THEN 100 ELSE 0]

Distance(sig, i) == Abs(Val(sig.tp[i]) - Val(sig.entry_price))

\* every TP price recorded and strictly further from the entry level by
\* level, TP1 being further from the entry than the entry itself
FurtherByLevel(sig) ==
    /\ \A i \in TPLevels : sig.tp[i] # Null
    /\ Distance(sig, 1) > 0
    /\ \A i \in 1..5 : Distance(sig, i) < Distance(sig, i + 1)

\* at least one signal, and all signals share the TP outcome k
AllHit(k) ==
    /\ signals # <<>>
    /\ \A i \in 1..Len(signals) :
           signals[i].highest_tp = k /\ FurtherByLevel(signals[i])

\* C13 as stated: when every signal has the same TP outcome k >= 1, with TP
\* prices strictly further from entry level by level, and step divides 100,
\* the top-ranked strategy is 100% on level k.  It fails for k = 6 when the
\* sixth slot is not optimised, and for entry prices of 0.
C13_TopIsAllOnSharedLevel ==
    \A k \in 1..6 :
        (Ranked /\ AllHit(k) /\ 100 % step = 0) => results[1].strategy = AllOn(k)

\* C13 amended: the same, when level k is a slot the generator fills (k <= 5,
\* or the sixth slot is included) and every entry price is positive.
C13_TopIsAllOnFeasibleLevel ==
    \A k \in 1..6 :
        (/\ Ranked /\ AllHit(k) /\ 100 % step = 0
         /\ k <= 5 \/ include_tp6
         /\ \A i \in 1..Len(signals) : Val(signals[i].entry_price) > 0)
        => /\ results[1].strategy = AllOn(k)
           /\ \A j \in 2..Len(results) : RLt(results[j].total_pl, results[1].total_pl)

\* two signals that both ended at TP3, a BUY and a SELL, ranked at step 50
\* with the sixth slot: 100% on TP3 is first
C13_Witness ==
    /\ pc = "done" /\ ret = Return("results")
    /\ Len(signals) = 2 /\ AllHit(3)
    /\ signals[1].action # signals[2].action
    /\ step = 50 /\ include_tp6 /\ Len(results) = 21
    /\ results[1].strategy = <<0, 0, 100, 0, 0, 0>>

\* C15: the reported best-by-win-rate candidate is a scored candidate whose win
\* rate is >= the win rate of every scored candidate, the top-P&L one included.
\* (That it can differ from the top-P&L candidate is shown by the witness.)
C15_BestWinRateIsMaximal ==
    \A b \in 1..Len(report.best_winrate) :
        LET best == report.best_winrate[b]
        IN  /\ \E k \in 1..Len(results) :
                   /\ results[k].strategy = best.strategy
                   /\ results[k].total_pl = best.total_pl
                   /\ results[k].stats.win_rate = best.win_rate
            /\ \A k \in 1..Len(results) : RLe(results[k].stats.win_rate, best.win_rate)
            /\ RLe(results[1].stats.win_rate, best.win_rate)

\* a run whose best-by-win-rate candidate is not the top-P&L candidate and
\* has a strictly larger win rate
C15_Witness ==
    /\ pc = "done" /\ ret = Return("results")
    /\ Len(report.best_winrate) = 1
    /\ report.best_winrate[1].strategy # results[1].strategy
    /\ RLt(results[1].stats.win_rate, report.best_winrate[1].win_rate)

\* something of a ranking is out: the list is sorted, a report is printed or
\* the list is returned
Surfaced ==
    \/ pc \in {"sorted", "top", "winrate"}
    \/ report # NoReport
    \/ ret = Return("results")

\* calculate_portfolio_profit has been run for every generated strategy
FullyScored ==
    /\ scored = Len(strategies)
    /\ Len(results) = Len(strategies)
    /\ \A j \in 1..Len(strategies) :
           \E i \in 1..Len(results) :
               /\ results[i].strategy = strategies[j]
               /\ results[i].total_pl
                      = calculate_portfolio_profit(signals, strategies[j]).total_pl

\* C16: the sort, the top-N report, the best-by-win-rate report, the
\* recommended strategy and the returned list exist only once every generated
\* strategy has been scored; while the scoring loop has strategies left, no
\* report is printed and nothing is returned, so a run that stops there
\* returns no ranking.
C16_NoRankingBeforeFullScoring ==
    /\ Surfaced => FullyScored
    /\ (pc = "scoring" /\ scored < Len(strategies)) =>
           /\ report = NoReport /\ ret = NotRun
           /\ Len(results) = scored
           /\ \A i \in 1..scored : results[i].strategy = strategies[i]

\* all three reports printed and the list returned, after 21 strategies scored
C16_Witness ==
    /\ pc = "done" /\ ret = Return("results")
    /\ Len(strategies) = 21 /\ scored = 21 /\ FullyScored
    /\ Len(report.top) = TopN /\ Len(report.best_winrate) = 1
    /\ Len(report.recommended) = 1

\* the outcome of one portfolio evaluation: (total_pl, stats)
SameOutcome(a, b) == a.total_pl = b.total_pl /\ a.stats = b.stats

\* C22: evaluation has no hidden state and no side effect.  Once loaded, the
\* optimizer's signal list (the signal records in it) is changed by no later
\* step, the strategies handed in are kept as generated, and a direct call of
\* calculate_portfolio_profit made after optimize has run returns exactly
\* what the earlier call with the same strategy returned: the baseline for
\* the default strategy, the scored entry for a generated strategy.
C22_EvaluationIsPure ==
    [][/\ pc # "optimize" => signals' = signals
       /\ db' = db
       /\ pc \in {"scoring", "sorted", "top", "winrate", "done"} =>
             strategies' = strategies
       /\ (port_out = NotRun /\ port_out' # NotRun /\ port_out'.kind = "return") =>
             /\ (strategy' = default_strategy /\ baseline.kind = "return") =>
                    SameOutcome(port_out', baseline)
             /\ \A i \in 1..Len(results) :
                    results[i].strategy = strategy' => SameOutcome(port_out', results[i])
      ]_vars

\* after a full run over two signals, a direct call with the default strategy
\* repeats the baseline, the signal list being what was loaded
C22_Witness ==
    /\ pc = "done" /\ ret = Return("results") /\ Len(signals) = 2
    /\ signals = load_signals(db)
    /\ port_out.kind = "return" /\ strategy = default_strategy
    /\ SameOutcome(port_out, baseline)
    /\ port_out.total_pl # RZero

\* what C25 says of the signal results of one portfolio evaluation of strat:
\* no TP-outcome signal has a negative profit, the losses are the stop-loss
\* signals, and a TP-outcome signal has profit 0 exactly when push(sig, strat)
ProfitSigns(stats, strat, push(_, _)) ==
    LET n == Len(signals)
    IN  /\ Len(stats.signal_results) = n
        /\ \A i \in 1..n :
               LET sig == signals[i]
                   profit == stats.signal_results[i].profit
               IN  /\ sig.highest_tp >= 1 => RLe(RZero, profit)
                   /\ RLt(profit, RZero) <=> sig.highest_tp = 0
                   /\ sig.highest_tp >= 1 =>
                          (profit = RZero <=> push(sig, strat))
        /\ stats.losses = Cardinality({i \in 1..n : signals[i].highest_tp = 0})

\* every level 1..highest_tp with a price has fraction 0 or the entry's price
NothingEarned(sig, strat) ==
    \A i \in 1..sig.highest_tp :
        Truthy(sig.tp[i]) => strat[i] = 0 \/ sig.tp[i] = sig.entry_price

NothingEarnedOrNoEntry(sig, strat) ==
    Val(sig.entry_price) = 0 \/ NothingEarned(sig, strat)

EveryProfitSign(push(_, _)) ==
    /\ port_out.kind = "return" => ProfitSigns(port_out.stats, strategy, push)
    /\ baseline.kind = "return" => ProfitSigns(baseline.stats, default_strategy, push)
    /\ \A i \in 1..Len(results) :
           ProfitSigns(results[i].stats, results[i].strategy, push)

\* C25 as stated: a TP-outcome signal never has a negative profit, whatever the
\* direction and the side of the TP prices, the losses are exactly the
\* stop-loss signals, and a TP-outcome signal is a push exactly when every
\* level 1..highest_tp with a price has fraction 0 or a price equal to the
\* entry.  A signal with entry price 0 is a push whatever its levels.
C25_PushIffNothingEarned == EveryProfitSign(NothingEarned)

\* C25, amended: the same, a TP-outcome signal being a push exactly when its
\* entry price is 0 or every level 1..highest_tp with a price has fraction 0
\* or a price equal to the entry.
C25_PushIffNothingEarnedOrNoEntry == EveryProfitSign(NothingEarnedOrNoEntry)

\* a ranked portfolio holding a stop-loss, a signal bought with its TPs below
\* the entry and a signal whose TP1 is at the entry, and a candidate that puts
\* nothing on TP1 and TP2
C25_Witness ==
    /\ Ranked
    /\ \E i \in 1..Len(signals) : signals[i].highest_tp = 0
    /\ \E i \in 1..Len(signals) :
           /\ signals[i].highest_tp >= 1
           /\ Val(signals[i].tp[1]) <= Val(signals[i].entry_price)
    /\ \E i \in 1..Len(results) :
           results[i].strategy[1] = 0 /\ results[i].strategy[2] = 0

\* the scored candidates whose win rate is the largest of all
MaxWinRate ==
    {k \in 1..Len(results) :
        \A j \in 1..Len(results) :
            RLe(results[j].stats.win_rate, results[k].stats.win_rate)}

\* C26: the reported best-by-win-rate candidate attains the maximum win rate
\* and no candidate attaining it has a larger total P&L; when every candidate
\* has the same win rate the reported candidate is the top-P&L entry itself.
C26_BestWinRateHasTopPL ==
    \A b \in 1..Len(report.best_winrate) :
        LET best == report.best_winrate[b]
        IN  /\ \E k \in MaxWinRate :
                   /\ results[k].strategy = best.strategy
                   /\ results[k].total_pl = best.total_pl
                   /\ results[k].stats.win_rate = best.win_rate
            /\ \A k \in MaxWinRate : RLe(results[k].total_pl, best.total_pl)
            /\ MaxWinRate = 1..Len(results) =>
                   /\ best.strategy = results[1].strategy
                   /\ best.total_pl = results[1].total_pl

\* a report whose best-by-win-rate candidate ties on win rate with a candidate
\* of smaller total P&L and beats the win rate of another
C26_Witness ==
    /\ Len(report.best_winrate) = 1
    /\ \E k \in MaxWinRate :
           RLt(results[k].total_pl, report.best_winrate[1].total_pl)
    /\ MaxWinRate # 1..Len(results)

------------------------------------------------------------------------------
(* Specification of optimize over steps with and without the baseline *)

\* a TP1 row and a row that hit all of TP1..TP5
BaseRowKinds == {OptRow(Some(Entry0), "LOW", 1), OptRow(Some(Entry0), "HIGH", 5)}

BaseDBs == DBsOf(BaseRowKinds)

\* steps that divide 10, steps that divide 100 only, and steps that do not
\* divide 100
BaseSteps == {10, 20, 25, 50, 100} \cup {15, 30, 40, 60, 99, 101}

InitBase ==
    /\ pc = "optimize"
    /\ db \in BaseDBs
    /\ step \in BaseSteps
    /\ include_tp6 = FALSE
    /\ strategies = <<>>
    /\ signals = <<>>
    /\ baseline = NotRun
    /\ results = <<>>
    /\ scored = 0
    /\ report = NoReport
    /\ ret = NotRun
    /\ port_out = NotRun
    /\ IdleEval
    /\ IdleDash

SpecBase == InitBase /\ [][NextOpt]_vars

\* the candidates have been generated: the run is past line 232, and a run
\* that ended with signals loaded ended after it
Generated ==
    \/ pc \in {"scoring", "sorted", "top", "winrate"}
    \/ pc = "done" /\ signals # <<>>

C28_CandidatesIffStepDivides100 ==
    /\ Generated => (strategies # <<>> <=> 100 % step = 0)
    /\ (step \in 1..100 /\ 100 % step # 0) =>
           /\ strategies = <<>>
           /\ report.best_winrate = <<>>
           /\ report.recommended = <<>>
           /\ ret # Return("results")
           /\ (pc = "done" /\ signals # <<>>) => ret = Raise("ValueError")

\* a run on a non-empty signal set at a step in 1..100 that does not divide
\* 100, ended by the failure, the empty top list having been printed
C28_Witness ==
    /\ step \in 1..100 /\ 100 % step # 0
    /\ signals # <<>>
    /\ baseline.kind = "return"
    /\ strategies = <<>> /\ results = <<>>
    /\ pc = "done" /\ ret = Raise("ValueError")

-----------------------------------------------------------------------------
(* Specification of two calls of calculate_signal_profit on one signal *)

\* the rows of the two calls: one symbol, no stop-loss recorded
PairRows ==
    {r \in Rows : r.symbol = XAUUSD /\ r.stop_loss = Null
                     /\ r.risk_level \in {"LOW", "HIGH"}}

\* the strategies of the two calls: some agree on a first few levels only
PairStrategies ==
    {default_strategy,
     <<50, 20, 10, 10, 0, 10>>,
     <<50, 20, 30, 0, 0, 0>>,
     <<50, 50, 0, 0, 0, 0>>,
     <<100, 0, 0, 0, 0, 0>>,
     <<0, 0, 0, 0, 0, 100>>}

InitPair ==
    /\ pc = "pair"
    /\ row \in PairRows
    /\ strategy = <<>>
    /\ opt_out = NotRun
    /\ dash_out = NotRun
    /\ strategy2 = <<>>
    /\ opt_out2 = NotRun
    /\ IdleGen
    /\ IdleOpt
    /\ IdleDash

FirstCall ==
    /\ pc = "pair"
    /\ opt_out = NotRun
    /\ \E strat \in PairStrategies :
          /\ strategy' = strat
          /\ opt_out' = calculate_signal_profit(signal_of(row), strat)
    /\ UNCHANGED <<pc, row, dash_out, strategy2, opt_out2, genVars, optVars, dashVars>>

SecondCall ==
    /\ pc = "pair"
    /\ opt_out # NotRun
    /\ opt_out2 = NotRun
    /\ \E strat \in PairStrategies :
          /\ strategy2' = strat
          /\ opt_out2' = calculate_signal_profit(signal_of(row), strat)
    /\ UNCHANGED <<pc, row, dash_out, strategy, opt_out, genVars, optVars, dashVars>>

NextPair == FirstCall \/ SecondCall

SpecPair == InitPair /\ [][NextPair]_vars

\* the two strategies give the same fraction to every level 1..k
AgreeUpTo(k) == \A i \in 1..k : strategy[i] = strategy2[i]

\* C14: two strategies that agree on the fractions of levels 1..highest_tp of
\* a signal give the same outcome for it (the same profit, or the same
\* exception): the fractions above the highest level hit have no influence.
C14_HigherLevelsIrrelevant ==
    (opt_out # NotRun /\ opt_out2 # NotRun /\ AgreeUpTo(HighestTP))
        => opt_out2 = opt_out

\* a TP2 signal evaluated with two strategies that differ from level 3 on:
\* the same non-zero profit
C14_Witness ==
    /\ opt_out.kind = "return" /\ opt_out2.kind = "return"
    /\ HighestTP = 2 /\ AgreeUpTo(2) /\ strategy[3] # strategy2[3]
    /\ opt_out2 = opt_out /\ RLt(RZero, opt_out.value)

-----------------------------------------------------------------------------
(* Specification of the evaluators over the instrument families *)

GOLD == <<"G", "O", "L", "D">>
BTCUSD == <<"B", "T", "C", "U", "S", "D">>
BITCOIN == <<"B", "I", "T", "C", "O", "I", "N">>
NAS100 == <<"N", "A", "S", "1", "0", "0">>
US100 == <<"U", "S", "1", "0", "0">>
NDX == <<"N", "D", "X">>
USDJPY == <<"U", "S", "D", "J", "P", "Y">>
XAUJPY == <<"X", "A", "U", "J", "P", "Y">>
JPYXAU == <<"J", "P", "Y", "X", "A", "U">>
BTCJPY == <<"B", "T", "C", "J", "P", "Y">>
NDXJPY == <<"N", "D", "X", "J", "P", "Y">>
XAUBTC == <<"X", "A", "U", "B", "T", "C">>

\* every family by each of its patterns, and symbols of several families
FamilySymbols ==
    {XAUUSD, GOLD, BTCUSD, BITCOIN, NAS100, US100, NDX, USDJPY, EURUSD,
     XAUJPY, JPYXAU, BTCJPY, NDXJPY, XAUBTC}

\* stop_loss NULL, 0 or a price below the entry
FamilyStopLosses == {Null, Some(0), Some(Entry0 - TPGap)}

\* tp1..tp6 all recorded, or tp2 NULL
FamilyTPColumns ==
    {[i \in TPLevels |-> Some(TPPrice(i))],
     [i \in TPLevels |-> IF i = 2 THEN Null ELSE Some(TPPrice(i))]}

\* announced TP levels need not be contiguous
FamilyTPHits == {{}, {1}, {2}, {1, 2}, {1, 3}, {6}}

FamilyRows ==
    [signal_number : {1}, symbol : FamilySymbols, action : Actions,
     entry_price : EntryPrices, stop_loss : FamilyStopLosses, tp : FamilyTPColumns,
     risk_level : {"LOW"}, tp_hits : FamilyTPHits]

InitFamily ==
    /\ pc = "eval"
    /\ row \in FamilyRows
    /\ strategy = <<>>
    /\ opt_out = NotRun
    /\ dash_out = NotRun
    /\ strategy2 = <<>>
    /\ opt_out2 = NotRun
    /\ IdleGen
    /\ IdleOpt
    /\ IdleDash

SpecFamily == InitFamily /\ [][Next]_vars

-----------------------------------------------------------------------------
(* Claims about pips and outcomes, checked under SpecFamily *)

\* the pip size table of the claim, in priority order
PipTable ==
    <<[patterns |-> {<<"X", "A", "U">>, GOLD}, size |-> Rat(10, 100)],
      [patterns |-> {<<"B", "T", "C">>, BITCOIN}, size |-> R(1)],
      [patterns |-> {<<"N", "A", "S">>, US100, NDX}, size |-> R(1)],
      [patterns |-> {<<"J", "P", "Y">>}, size |-> Rat(1, 100)]>>

ClaimPipSize(sym) ==
    LET hit == {i \in 1..Len(PipTable) :
                   \E p \in PipTable[i].patterns : Contains(sym, p)}
    IN  IF hit = {} THEN Rat(1, 10000)
        ELSE PipTable[CHOOSE i \in hit : \A j \in hit : i <= j].size

\* exit price and entry price both recorded and not 0
Priced == Truthy(dash_out.exit_price) /\ Truthy(row.entry_price)

\* the distance from the entry to price, signed by direction
Directed(price) ==
    IF row.action = "BUY" THEN R(price - Val(row.entry_price))
    ELSE R(Val(row.entry_price) - price)

\* C17: the pip size is the first match of XAU/GOLD 0.10, BTC/BITCOIN 1.0,
\* NAS/US100/NDX 1.0, JPY 0.01, else 0.0001, and the stop-loss branch and the
\* take-profit branch (with the breakdown rows) use that same size: every
\* computed pip distance is the directed price distance divided by it.
C17_PipSizeByPriority ==
    /\ sl_pip_multiplier(row.symbol) = ClaimPipSize(row.symbol)
    /\ pip_multiplier(row.symbol) = ClaimPipSize(row.symbol)
    /\ (DashRan /\ Priced) =>
           /\ dash_out.raw_pips
                  = RDiv(Directed(Val(dash_out.exit_price)), ClaimPipSize(row.symbol))
           /\ \A i \in 1..Len(dash_out.tp_breakdown) :
                  LET b == dash_out.tp_breakdown[i]
                  IN  b.pips = Round(RDiv(Directed(Val(row.tp[b.tp_level])),
                                          ClaimPipSize(row.symbol)), 1)

\* a stopped-out BUY of a symbol that names JPY before XAU: gold's 0.10
C17_Witness ==
    /\ DashRan /\ Priced /\ HighestTP = 0
    /\ row.symbol = JPYXAU /\ row.action = "BUY"
    /\ dash_out.raw_pips = RDiv(R(-TPGap), Rat(10, 100))

OutcomeLabels == <<"TP1 Hit", "TP2 Hit", "TP3 Hit", "TP4 Hit", "TP5 Hit", "TP6 Hit">>

\* h is max(tps_hit), or 0 when no level was hit
IsHighestOf(h, tp_hits) ==
    IF tp_hits = {} THEN h = 0
    ELSE h \in tp_hits /\ \A k \in tp_hits : k <= h

\* C18: highest_tp is max(tps_hit), or 0 for no hit, in load_signals and in the
\* dashboard alike; the dashboard's outcome is "SL Hit", a loss with the
\* stop-loss as exit price, iff highest_tp = 0, and otherwise
\* "TP<highest_tp> Hit", a win with that level's price as exit price; the class
\* is exactly one of loss and win.
C18_ExactlyOneOutcome ==
    /\ IsHighestOf(signal_of(row).highest_tp, row.tp_hits)
    /\ DashRan =>
           /\ IsHighestOf(dash_out.highest_tp, row.tp_hits)
           /\ dash_out.outcome = "SL Hit" <=> dash_out.highest_tp = 0
           /\ dash_out.outcome_class = "loss" <=> dash_out.highest_tp = 0
           /\ dash_out.outcome_class = "win" <=> dash_out.highest_tp >= 1
           /\ dash_out.highest_tp = 0 => dash_out.exit_price = row.stop_loss
           /\ dash_out.highest_tp >= 1 =>
                  /\ dash_out.outcome = OutcomeLabels[dash_out.highest_tp]
                  /\ dash_out.exit_price = row.tp[dash_out.highest_tp]

\* TP1 and TP3 announced: "TP3 Hit", a win, exit at tp3
C18_Witness ==
    /\ DashRan /\ OptRan /\ row.tp_hits = {1, 3}
    /\ dash_out.highest_tp = 3 /\ signal_of(row).highest_tp = 3
    /\ dash_out.outcome = "TP3 Hit" /\ dash_out.outcome_class = "win"
    /\ dash_out.exit_price = Some(TPPrice(3))

\* the breakdown rows of level k
RowsOfLevel(k) ==
    {i \in 1..Len(dash_out.tp_breakdown) : dash_out.tp_breakdown[i].tp_level = k}

\* C19: for a TP outcome with the entry price and the price of level
\* highest_tp recorded (and not 0), tp_breakdown has exactly one row for level
\* highest_tp and the signal's pips equals that row's pips, which is
\* (tp - entry) / pip size for BUY and (entry - tp) / pip size for SELL,
\* rounded to one decimal.
C19_PipsIsHighestLevelPips ==
    (DashRan /\ HighestTP >= 1 /\ Priced) =>
        /\ Cardinality(RowsOfLevel(HighestTP)) = 1
        /\ \A i \in RowsOfLevel(HighestTP) :
               /\ dash_out.pips = dash_out.tp_breakdown[i].pips
               /\ dash_out.pips
                      = Round(RDiv(Directed(Val(row.tp[HighestTP])),
                                   ClaimPipSize(row.symbol)), 1)

\* a SELL of a JPY pair that reached TP3 with tp2 not recorded: the two
\* breakdown rows are those of levels 1 and 3, and pips is the negative
\* distance to tp3
C19_Witness ==
    /\ DashRan /\ Priced /\ HighestTP = 3
    /\ row.symbol = USDJPY /\ row.action = "SELL" /\ row.tp[2] = Null
    /\ Len(dash_out.tp_breakdown) = 2
    /\ dash_out.pips = dash_out.tp_breakdown[2].pips
    /\ dash_out.pips = R(-3 * TPGap * 100)

\* the estimate table of the claim, by instrument family in priority order
ClaimEstimate(sym) ==
    IF Contains(sym, <<"X", "A", "U">>) \/ Contains(sym, GOLD) THEN -30
    ELSE IF Contains(sym, <<"B", "T", "C">>) \/ Contains(sym, BITCOIN) THEN -400
    ELSE IF Contains(sym, <<"N", "A", "S">>) \/ Contains(sym, US100)
            \/ Contains(sym, NDX) THEN -75
    ELSE -30

\* C20: for a stop-loss outcome the dashboard returns without error; pips is
\* (stop_loss - entry) / pip size for BUY and (entry - stop_loss) / pip size for
\* SELL when stop-loss and entry are both available (recorded and not 0), and
\* otherwise the fixed estimate: -30 gold, -400 Bitcoin, -75 Nasdaq, -30 every
\* other symbol.  The returned pips is the value rounded to one decimal.
C20_StopLossPips ==
    (DashRan /\ HighestTP = 0) =>
        /\ dash_out.kind = "return"
        /\ IF Truthy(row.stop_loss) /\ Truthy(row.entry_price)
           THEN /\ dash_out.raw_pips
                       = RDiv(Directed(Val(row.stop_loss)), ClaimPipSize(row.symbol))
                /\ dash_out.pips = Round(dash_out.raw_pips, 1)
           ELSE /\ dash_out.raw_pips = R(ClaimEstimate(row.symbol))
                /\ dash_out.pips = R(ClaimEstimate(row.symbol))

\* a stopped-out Nasdaq signal with no stop-loss recorded: the estimate -75
C20_Witness ==
    /\ DashRan /\ HighestTP = 0
    /\ row.symbol = US100 /\ row.stop_loss = Null /\ row.entry_price # Null
    /\ dash_out.pips = R(-75)

-----------------------------------------------------------------------------
(* Further claims about the evaluators, checked under Spec *)

\* the row with its risk level replaced
WithRisk(r, risk_level) == [r EXCEPT !.risk_level = risk_level]

\* C21: both evaluators use the risk percentage 1 for LOW, 2 for MEDIUM, 3 for
\* HIGH and 2 for an absent level: a stop-loss outcome is minus that percentage
\* and a TP outcome is that percentage times the profit of the same row at LOW
\* risk, in calculate_signal_profit and in the dashboard alike.
C21_RiskPercentAgrees ==
    LET risk == ClaimRiskPercent(row.risk_level)
    IN  /\ opt_risk_percent(row.risk_level) = risk
        /\ dash_risk_percent(row.risk_level) = risk
        /\ OptRan /\ opt_out.kind = "return" =>
              IF HighestTP = 0 THEN opt_out.value = R(-risk)
              ELSE opt_out.value
                      = RMul(R(risk),
                             calculate_signal_profit(signal_of(WithRisk(row, "LOW")),
                                                     strategy).value)
        /\ DashRan =>
              /\ dash_out.risk_level
                     = (IF row.risk_level = "None" THEN "MEDIUM" ELSE row.risk_level)
              /\ IF HighestTP = 0 THEN dash_out.raw_profit_percent = R(-risk)
                 ELSE dash_out.raw_profit_percent
                         = RMul(R(risk),
                                fallback_signal(WithRisk(row, "LOW")).raw_profit_percent)

\* a TP2 row without risk level: both evaluators give twice the LOW profit
C21_Witness ==
    /\ row.risk_level = "None" /\ HighestTP = 2
    /\ OptRan /\ opt_out.kind = "return" /\ DashRan
    /\ RLt(RZero, opt_out.value) /\ RLt(RZero, dash_out.raw_profit_percent)
    /\ opt_out.value
          = RMul(R(2), calculate_signal_profit(signal_of(WithRisk(row, "LOW")),
                                               strategy).value)
    /\ dash_out.raw_profit_percent
          = RMul(R(2), fallback_signal(WithRisk(row, "LOW")).raw_profit_percent)

-----------------------------------------------------------------------------
(* get_signal_history and get_signal_history_fallback (lines 709-1030) *)

\* the value of a decimal digit
DigitValue(c) ==
    CASE c = "0" -> 0 [] c = "1" -> 1 [] c = "2" -> 2 [] c = "3" -> 3 [] c = "4" -> 4
      [] c = "5" -> 5 [] c = "6" -> 6 [] c = "7" -> 7 [] c = "8" -> 8 [] c = "9" -> 9
      [] OTHER -> -1

RECURSIVE DecimalValue(_)
DecimalValue(text) ==
    IF text = <<>> THEN 0
    ELSE 10 * DecimalValue(SubSeq(text, 1, Len(text) - 1)) + DigitValue(text[Len(text)])

\* int(request.args.get(name, default)): the argument is absent or a text,
\* which int() turns into a number or rejects with ValueError
int_arg(arg, default) ==
    IF arg = Null THEN Return(default)
    ELSE IF Val(arg) = <<>> \/ \E i \in 1..Len(Val(arg)) : DigitValue(Val(arg)[i]) < 0
    THEN Raise("ValueError")
    ELSE Return(DecimalValue(Val(arg)))

\* the rows of the fallback query: "LIMIT ? OFFSET ?" over the table in the
\* query's order
query_rows(rows, limit, offset) ==
    SubSeq(rows, offset + 1, IF offset + limit < Len(rows) THEN offset + limit ELSE Len(rows))

RECURSIVE SumField(_, _)
SumField(sigs, field) ==
    IF sigs = <<>> THEN RZero
    ELSE RAdd(sigs[1][field], SumField(Tail(sigs), field))

\* len([s for s in signals if s[field] == value])
CountField(sigs, field, value) ==
    Cardinality({i \in 1..Len(sigs) : sigs[i][field] = value})

\* mutant: "winning_signals" counted by profit_percent > 0
summary_of_wins_by_profit(sigs) ==
    LET total_signals == Len(sigs)
        winning_signals == Cardinality({i \in 1..Len(sigs) : RLt(RZero, sigs[i].profit_percent)})
        losing_signals == CountField(sigs, "outcome_class", "loss")
        win_rate == IF total_signals > 0
                    THEN RMul(Rat(winning_signals, total_signals), R(100)) ELSE RZero
    IN  [total_signals |-> total_signals,
         winning_signals |-> winning_signals,
         losing_signals |-> losing_signals,
         win_rate |-> Round(win_rate, 2),
         total_pl_percent |-> Round(SumField(sigs, "profit_percent"), 2),
         total_pips |-> Round(SumField(sigs, "pips"), 1),
         tp_distribution |->
             <<losing_signals>> \o
             [k \in 1..6 |-> CountField(sigs, "highest_tp", k)]]

\* the summary statistics (lines 990-1009); tp_distribution is SL, TP1..TP6
summary_of(sigs) ==
    LET total_signals == Len(sigs)
        winning_signals == CountField(sigs, "outcome_class", "win")
        losing_signals == CountField(sigs, "outcome_class", "loss")
        win_rate == IF total_signals > 0
                    THEN RMul(Rat(winning_signals, total_signals), R(100)) ELSE RZero
    IN  [total_signals |-> total_signals,
         winning_signals |-> winning_signals,
         losing_signals |-> losing_signals,
         win_rate |-> Round(win_rate, 2),
         total_pl_percent |-> Round(SumField(sigs, "profit_percent"), 2),
         total_pips |-> Round(SumField(sigs, "pips"), 1),
         tp_distribution |->
             <<losing_signals>> \o
             [k \in 1..6 |-> CountField(sigs, "highest_tp", k)]]

\* get_signal_history_fallback: the JSON it returns for the table rows
get_signal_history_fallback(rows, req) ==
    LET limit == int_arg(req.limit, 100)
        offset == int_arg(req.offset, 0)
    IN  IF limit.kind = "raise" \/ offset.kind = "raise"
        THEN [kind |-> "response", status_code |-> 500, fallback |-> TRUE,
              body |-> [status |-> "error"]]
        ELSE LET sigs == [i \in 1..Len(query_rows(rows, limit.value, offset.value)) |->
                             fallback_signal(query_rows(rows, limit.value, offset.value)[i])]
             IN  [kind |-> "response", status_code |-> 200, fallback |-> TRUE,
                  body |-> [status |-> "success",
                            signals |-> sigs,
                            total_count |-> Len(rows),
                            summary |-> summary_of(sigs)]]

\* what requests.get gives: an exception of the requests library or a
\* response with a status code and a body that is JSON or not
BotOutcomes ==
    {[kind |-> "raise", exc |-> e] : e \in {"ConnectionError", "Timeout"}}
        \cup {[kind |-> "response", status_code |-> c, json |-> j] :
                 c \in {200, 404, 500}, j \in {Null, Some("data")}}

\* limit and offset as sent: absent, a number, not a number
ArgTexts == {Null, Some(<<"1">>), Some(<<"a", "b", "c">>)}

\* response.json() on a body that is not JSON raises requests' JSONDecodeError,
\* a RequestException (requests 2.27 and later), or a plain ValueError (earlier)
JsonErrors == {"requests.JSONDecodeError", "ValueError"}

\* the request: its arguments, what requests.get gives, and what
\* response.json() raises should the body not be JSON
HistRequests ==
    [limit : ArgTexts, offset : {Null, Some(<<"1">>)}, bot : BotOutcomes,
     json_error : JsonErrors]

IsRequestException(e) == e \in {"ConnectionError", "Timeout", "requests.JSONDecodeError"}

\* mutant: the fallback served for a non-200 response as well
get_signal_history_fallback_on_status(rows, req) ==
    LET limit == int_arg(req.limit, 100)
        offset == int_arg(req.offset, 0)
    IN  IF limit.kind = "raise" THEN limit
        ELSE IF offset.kind = "raise" THEN offset
        ELSE IF req.bot.kind = "raise"
        THEN IF IsRequestException(req.bot.exc)
             THEN get_signal_history_fallback(rows, req)
             ELSE Raise(req.bot.exc)
        ELSE IF req.bot.status_code = 200
        THEN IF req.bot.json = Null
             THEN IF IsRequestException(req.json_error)
                  THEN get_signal_history_fallback(rows, req)
                  ELSE Raise(req.json_error)
             ELSE [kind |-> "response", status_code |-> 200, fallback |-> FALSE,
                   body |-> Val(req.bot.json)]
        ELSE get_signal_history_fallback(rows, req)

\* get_signal_history (lines 709-745)
get_signal_history(rows, req) ==
    LET limit == int_arg(req.limit, 100)
        offset == int_arg(req.offset, 0)
    IN  IF limit.kind = "raise" THEN limit
        ELSE IF offset.kind = "raise" THEN offset
        ELSE IF req.bot.kind = "raise"
        THEN IF IsRequestException(req.bot.exc)
             THEN get_signal_history_fallback(rows, req)
             ELSE Raise(req.bot.exc)
        ELSE IF req.bot.status_code = 200
        THEN IF req.bot.json = Null
             THEN IF IsRequestException(req.json_error)
                  THEN get_signal_history_fallback(rows, req)
                  ELSE Raise(req.json_error)
             ELSE [kind |-> "response", status_code |-> 200, fallback |-> FALSE,
                   body |-> Val(req.bot.json)]
        ELSE [kind |-> "response", status_code |-> 502, fallback |-> FALSE,
              body |-> [error |-> "Failed to fetch signals from bot",
                        status |-> req.bot.status_code]]

-----------------------------------------------------------------------------
(* Specification of one request to /api/signal-history *)

\* a TP2 row whose TP2 price, its exit price, is not recorded
NoExitRow == [OptRow(Some(Entry0), "LOW", 2) EXCEPT !.tp[2] = Null]

\* the rows of signal_details: a stop-loss row, a row for each TP level, TP1
\* rows without entry price and with entry price 0, and a row without exit
\* price
HistRowKinds ==
    {OptRow(Some(Entry0), "LOW", k) : k \in 0..6}
        \cup {OptRow(Null, "LOW", 1), OptRow(Some(0), "LOW", 1), NoExitRow}

HistDBs == DBsOf(HistRowKinds)

InitHist ==
    /\ pc = "request"
    /\ db \in HistDBs
    /\ hist_req \in HistRequests
    /\ hist_resp = NotRun
    /\ trader_stats = <<>> /\ stats_req = <<>>
    /\ signals = <<>> /\ baseline = NotRun /\ results = <<>> /\ scored = 0
    /\ report = <<>> /\ ret = NotRun /\ port_out = NotRun
    /\ IdleGen
    /\ IdleEval

GetSignalHistory ==
    /\ pc = "request"
    /\ hist_resp' = get_signal_history(db, hist_req)
    /\ pc' = "responded"
    /\ UNCHANGED <<hist_req, trader_stats, stats_req, genVars, evalVars, optVars>>

NextHist == GetSignalHistory

SpecHist == InitHist /\ [][NextHist]_vars

-----------------------------------------------------------------------------
(* Claims about get_signal_history, checked under SpecHist *)

\* limit and offset are numbers, so that the request to the bot API is made
ArgsParse ==
    /\ int_arg(hist_req.limit, 100).kind = "return"
    /\ int_arg(hist_req.offset, 0).kind = "return"

ServedFallback == hist_resp.kind = "response" /\ hist_resp.fallback

Proxied ==
    /\ hist_resp.kind = "response" /\ ~hist_resp.fallback
    /\ hist_resp.status_code = 200
    /\ hist_resp.body = Val(hist_req.bot.json)

BadGateway ==
    /\ hist_resp.kind = "response" /\ ~hist_resp.fallback
    /\ hist_resp.status_code = 502

RequestExceptionRaised ==
    \/ hist_req.bot.kind = "raise"
    \/ /\ hist_req.bot.kind = "response" /\ hist_req.bot.status_code = 200
       /\ hist_req.bot.json = Null
       /\ IsRequestException(hist_req.json_error)

FallbackSummary == ServedFallback /\ hist_resp.status_code = 200

RECURSIVE SumOf(_)
SumOf(counts) == IF counts = <<>> THEN 0 ELSE counts[1] + SumOf(Tail(counts))

\* C29: in the fallback summary winning_signals is the number of signals with
\* highest_tp >= 1 and losing_signals the number with highest_tp = 0, so the
\* two add up to total_signals, and the seven tp_distribution counts add up to
\* total_signals when every highest_tp is in 0..6; a TP-outcome signal whose
\* entry or exit price is missing (NULL, or 0, which the code treats alike) is
\* classed a win with profit_percent 0.
C29_SummaryCountsByOutcome ==
    FallbackSummary =>
        LET sigs == hist_resp.body.signals
            summary == hist_resp.body.summary
        IN  /\ summary.total_signals = Len(sigs)
            /\ summary.winning_signals
                   = Cardinality({i \in 1..Len(sigs) : sigs[i].highest_tp >= 1})
            /\ summary.losing_signals
                   = Cardinality({i \in 1..Len(sigs) : sigs[i].highest_tp = 0})
            /\ summary.winning_signals + summary.losing_signals = summary.total_signals
            /\ (\A i \in 1..Len(sigs) : sigs[i].highest_tp \in 0..6) =>
                   SumOf(summary.tp_distribution) = summary.total_signals
            /\ \A i \in 1..Len(sigs) :
                   (/\ sigs[i].highest_tp >= 1
                    /\ ~Truthy(sigs[i].entry_price) \/ ~Truthy(sigs[i].exit_price)) =>
                       /\ sigs[i].outcome_class = "win"
                       /\ sigs[i].profit_percent = RZero

\* a summary over the whole table that counts a signal without entry price
\* and a signal without exit price as wins, and more wins than the optimizer
\* counts for the same table under the baseline strategy
C29_Witness ==
    /\ FallbackSummary
    /\ Len(hist_resp.body.signals) = Len(db)
    /\ \E i \in 1..Len(db) :
           /\ hist_resp.body.signals[i].highest_tp >= 1
           /\ hist_resp.body.signals[i].entry_price = Null
    /\ \E i \in 1..Len(db) :
           /\ hist_resp.body.signals[i].highest_tp >= 1
           /\ hist_resp.body.signals[i].exit_price = Null
    /\ hist_resp.body.summary.winning_signals = Len(db)
    /\ calculate_portfolio_profit(load_signals(db), default_strategy).stats.wins
           < hist_resp.body.summary.winning_signals

------------------------------------------------------------------------------
(* DashboardDatabase.update_trader_stats (lines 238-329) *)

\* account ids: a short one and two that agree on their first eight characters
AccountIds ==
    {<<"a">>,
     <<"1", "2", "3", "4", "5", "6", "7", "8", "9">>,
     <<"1", "2", "3", "4", "5", "6", "7", "8", "0">>}

\* the stats dict of a call, a key being absent (Null) or present
StatsDicts ==
    {[username |-> Null, total_trades |-> Null, sharpe_ratio |-> Null,
      current_balance |-> Null],
     [username |-> Some(<<"b", "o", "b">>), total_trades |-> Null,
      sharpe_ratio |-> Null, current_balance |-> Null],
     [username |-> Null, total_trades |-> Some(5), sharpe_ratio |-> Some(2),
      current_balance |-> Some(12000)],
     [username |-> Some(<<"e", "v", "e">>), total_trades |-> Some(5),
      sharpe_ratio |-> Null, current_balance |-> Null]}

\* stats.get(key, default)
stats_get(value, default) == IF value = Null THEN default ELSE Val(value)

\* f'Trader_{account_id[:8]}'
default_username(account_id) ==
    <<"T", "r", "a", "d", "e", "r", "_">>
        \o SubSeq(account_id, 1, IF Len(account_id) < 8 THEN Len(account_id) ELSE 8)

\* the row an INSERT of lines 296-324 makes: the columns it names, the others
\* at the defaults of the schema (lines 110-140).  total_trades stands for the
\* seventeen columns written as stats.get(name, 0); current_streak for the
\* three streak columns the method never writes; last_updated is left out.
new_row(account_id, stats) ==
    [account_id |-> account_id,
     username |-> stats_get(stats.username, default_username(account_id)),
     display_name |-> Null,
     total_trades |-> stats_get(stats.total_trades, 0),
     sharpe_ratio |-> stats.sharpe_ratio,
     current_balance |-> stats_get(stats.current_balance, 10000),
     current_streak |-> 0,
     initial_balance |-> 10000,
     peak_balance |-> 10000,
     is_public |-> 1]

\* INSERT INTO trader_stats: account_id is the PRIMARY KEY (line 111)
insert_row(table, r) ==
    IF \E i \in 1..Len(table) : table[i].account_id = r.account_id
    THEN [kind |-> "raise", error |-> "sqlite3.IntegrityError", table |-> table]
    ELSE [kind |-> "return", table |-> Append(table, r)]

\* UPDATE trader_stats SET ... WHERE account_id = ? (lines 249-294)
update_rows(table, account_id, stats) ==
    [i \in 1..Len(table) |->
        IF table[i].account_id = account_id
        THEN [table[i] EXCEPT !.total_trades = stats_get(stats.total_trades, 0),
                              !.sharpe_ratio = stats.sharpe_ratio,
                              !.current_balance = stats_get(stats.current_balance, 10000)]
        ELSE table[i]]

\* mutant: the row is inserted without looking for an existing one
update_trader_stats_always_inserts(table, account_id, stats) ==
    insert_row(table, new_row(account_id, stats))

\* update_trader_stats: the table after the call, and how the call ended
update_trader_stats(table, account_id, stats) ==
    LET exists == \E i \in 1..Len(table) : table[i].account_id = account_id
    IN  IF exists
        THEN [kind |-> "return", table |-> update_rows(table, account_id, stats)]
        ELSE insert_row(table, new_row(account_id, stats))

------------------------------------------------------------------------------
(* Specification of a sequence of update_trader_stats calls *)

\* init_database has created the empty table
InitStats ==
    /\ pc = "serving"
    /\ trader_stats = <<>>
    /\ stats_req = <<>>
    /\ hist_req = <<>> /\ hist_resp = NotRun
    /\ IdleOpt
    /\ IdleGen
    /\ IdleEval

UpdateTraderStats ==
    /\ pc = "serving"
    /\ \E account_id \in AccountIds, stats \in StatsDicts :
          /\ trader_stats' = update_trader_stats(trader_stats, account_id, stats).table
          /\ stats_req' = [account_id |-> account_id, stats |-> stats]
    /\ UNCHANGED <<pc, hist_req, hist_resp, genVars, evalVars, optVars>>

NextStats == UpdateTraderStats

SpecStats == InitStats /\ [][NextStats]_vars

------------------------------------------------------------------------------
(* Claims about update_trader_stats, checked under SpecStats *)

RowsOf(table, account_id) ==
    {i \in 1..Len(table) : table[i].account_id = account_id}

\* the call just made wrote its statistics to row r
StatsWritten(r, stats) ==
    /\ r.total_trades = stats_get(stats.total_trades, 0)
    /\ r.sharpe_ratio = stats.sharpe_ratio
    /\ r.current_balance = stats_get(stats.current_balance, 10000)

\* what a call for account_id does to the table
CallEffect(old, new, account_id, stats) ==
    /\ \A id \in AccountIds : Cardinality(RowsOf(new, id)) <= 1
    /\ IF RowsOf(old, account_id) = {}
       THEN /\ Len(new) = Len(old) + 1
            /\ new[Len(new)].account_id = account_id
            /\ StatsWritten(new[Len(new)], stats)
       ELSE /\ Len(new) = Len(old)
            /\ \A i \in RowsOf(old, account_id) :
                   /\ new[i].account_id = account_id
                   /\ StatsWritten(new[i], stats)
                   /\ new[i].username = old[i].username
                   /\ new[i].display_name = old[i].display_name
                   /\ new[i].initial_balance = old[i].initial_balance
                   /\ new[i].peak_balance = old[i].peak_balance
                   /\ new[i].is_public = old[i].is_public
    /\ \A i \in 1..Len(old) : old[i].account_id # account_id => new[i] = old[i]

\* C30: every update_trader_stats call leaves at most one row per account_id;
\* a call for an account without a row inserts one, a call for an account with
\* a row writes the call's statistics to that row and leaves its username,
\* display_name, initial_balance, peak_balance and is_public as they were; the
\* rows of the other accounts are as before the call.
C30_OneRowPerAccount ==
    [][CallEffect(trader_stats, trader_stats', stats_req'.account_id, stats_req'.stats)]_vars

\* two accounts have rows, and the last call, made with a username for an
\* account that had a row, changed that row's statistics and not its username
C30_Witness ==
    /\ Len(trader_stats) >= 2
    /\ stats_req # <<>>
    /\ stats_req.stats.username # Null
    /\ \E i \in RowsOf(trader_stats, stats_req.account_id) :
           /\ trader_stats[i].username # Val(stats_req.stats.username)
           /\ trader_stats[i].total_trades = 5

====
